---------------------------- MODULE Spec2Model ----------------------------
(***************************************************************************)
(* A model of the projection & market pipeline of prop-bot:                *)
(*   odds_tracker.py   the durable odds snapshot store and the line drift  *)
(*   injuries.py       the injury adjustment of projected minutes          *)
(*   minutes_model.py  the projected minutes                               *)
(*   team_ratings.py   the team ratings and the matchup adjustment         *)
(*   main_pipeline.py  run_full_model, the staged pipeline                 *)
(*                                                                         *)
(* Numbers the code holds as floats are exact rationals <<n, d>> here      *)
(* (d > 0, lowest terms), so 229.5 is <<459, 2>>.                          *)
(***************************************************************************)
EXTENDS Integers, Sequences, FiniteSets, Bags, TLC

VARIABLES
    tableExists,   \* odds_snapshots.db holds the table odds_snapshots
    store,         \* the rows of odds_snapshots, in rowid order
    clock,         \* the last reading of datetime.utcnow()
    call,          \* the last call of a function on its own, and what it returned
    run,           \* the run of run_full_model in progress: its position and locals
    results        \* what the finished runs of run_full_model returned (a bag)

storeVars == <<tableExists, store, clock>>
pipeVars == <<run, results>>
vars == <<tableExists, store, clock, call, run, results>>

\* the value None of the code, where the code returns None or a record
None == [none |-> TRUE]

-----------------------------------------------------------------------------
(* Rationals *)

Abs(x) == IF x < 0 THEN -x ELSE x

RECURSIVE GCD(_, _)
GCD(a, b) == IF b = 0 THEN a ELSE GCD(b, a % b)

\* n/d in lowest terms with a positive denominator (d # 0)
Rat(n, d) ==
    LET g == GCD(Abs(n), Abs(d))
        s == IF d < 0 THEN -1 ELSE 1
    IN  <<(s * n) \div g, (s * d) \div g>>

RInt(n) == <<n, 1>>

\* a + b over the least common denominator
RAdd(a, b) ==
    LET g == GCD(a[2], b[2])
    IN  Rat(a[1] * (b[2] \div g) + b[1] * (a[2] \div g), (a[2] \div g) * b[2])
RNeg(a) == <<-a[1], a[2]>>
RSub(a, b) == RAdd(a, RNeg(b))

\* a * b, the common factors taken out first
RMul(a, b) ==
    LET g1 == GCD(Abs(a[1]), b[2])
        g2 == GCD(Abs(b[1]), a[2])
    IN  IF a[1] = 0 \/ b[1] = 0 THEN <<0, 1>>
        ELSE <<(a[1] \div g1) * (b[1] \div g2), (a[2] \div g2) * (b[2] \div g1)>>

\* a / b (b # 0)
RDiv(a, b) == RMul(a, IF b[1] < 0 THEN <<-b[2], -b[1]>> ELSE <<b[2], b[1]>>)
RLess(a, b) == RSub(a, b)[1] < 0
RLeq(a, b) == RSub(a, b)[1] <= 0
RZero == <<0, 1>>
RMax(a, b) == IF RLess(a, b) THEN b ELSE a

\* the largest integer <= r
Floor(r) == r[1] \div r[2]

\* int(r): towards zero
IntTrunc(r) == IF r[1] >= 0 THEN r[1] \div r[2] ELSE -((-r[1]) \div r[2])

\* the nearest integer, a half going to the even one
RoundHalfEven(r) ==
    LET f == Floor(r)
        twice == 2 * (r[1] - f * r[2])
    IN  IF twice < r[2] THEN f
        ELSE IF twice > r[2] THEN f + 1
        ELSE IF f % 2 = 0 THEN f ELSE f + 1

\* round(r, 1) and round(r, 2)
Round1(r) == Rat(RoundHalfEven(RMul(r, <<10, 1>>)), 10)
Round2(r) == Rat(RoundHalfEven(RMul(r, <<100, 1>>)), 100)

\* the sum of f[i] over the i of lo..hi that are in idx
RECURSIVE RSumRange(_, _, _, _)
RSumRange(f, idx, lo, hi) ==
    IF lo > hi THEN RZero
    ELSE IF lo = hi THEN (IF lo \in idx THEN f[lo] ELSE RZero)
    ELSE LET mid == (lo + hi) \div 2
         IN  RAdd(RSumRange(f, idx, lo, mid), RSumRange(f, idx, mid + 1, hi))

\* the sum of f[x] over x in S, for any finite set S
RECURSIVE RSumSet(_, _)
RSumSet(f, S) ==
    IF S = {} THEN RZero
    ELSE LET x == CHOOSE y \in S : TRUE
         IN  RAdd(f[x], RSumSet(f, S \ {x}))

\* the sum of f[i] over i in idx, for a sequence f
RSum(f, idx) == RSumRange(f, idx, 1, Len(f))

\* the mean of f[i] over i in idx (idx not empty)
RMean(f, idx) == RDiv(RSum(f, idx), <<Cardinality(idx), 1>>)
RMeanSet(f, S) == RDiv(RSumSet(f, S), <<Cardinality(S), 1>>)

\* no run of run_full_model in progress
IdleRun == [pc |-> "idle"]

-----------------------------------------------------------------------------
(* odds_tracker.py *)

\* the bounds of the store's exploration
MaxRows == 2
MaxClock == 2

\* (game_id, bookmaker, market_type) of the snapshots inserted
Keys == { <<"MODEL_DEMO_001", "BookA", "total">>,
          <<"MODEL_DEMO_001", "BookB", "total">>,
          <<"MODEL_DEMO_001", "BookA", "spread">>,
          <<"GAME_2", "BookA", "total">> }
GameIds == { k[1] : k \in Keys }
MarketTypes == { k[3] : k \in Keys }
\* 229.5 and 228.0, the lines of the pipeline's demo snapshots
Lines == { <<459, 2>>, <<228, 1>> }
BookOdds == { -110 }
Times == 1..MaxClock

\* the bound and the lines of the sequences compute_line_drift is tried on
MaxSnaps == 3
DriftLines == { <<459, 2>>, <<228, 1>>, <<0, 1>>, <<-7, 2>> }
\* the projected game totals book_total is chosen against
ProjTotals == { <<2213, 10>>, <<228, 1>> }

\* CREATE TABLE IF NOT EXISTS: the rows of an existing table are kept
ensure_db_rows(exists, rows) == IF exists THEN rows ELSE << >>

\* id INTEGER PRIMARY KEY: the rowid sqlite assigns, one more than the largest
NextId(rows) ==
    IF rows = << >> THEN 1
    ELSE 1 + CHOOSE m \in { rows[i].id : i \in 1..Len(rows) } :
                 \A i \in 1..Len(rows) : rows[i].id <= m

\* an INSERT that replaces the latest row of the same game, bookmaker and market
InsertRowUpsert(rows, g, b, m, line, odds, ts) ==
    LET same == { i \in 1..Len(rows) :
                    rows[i].game_id = g /\ rows[i].bookmaker = b
                    /\ rows[i].market_type = m }
        new(i) == [id |-> i, game_id |-> g, bookmaker |-> b, market_type |-> m,
                   line_value |-> line, odds_american |-> odds, timestamp |-> ts]
    IN  IF same = {}
        THEN Append(rows, new(NextId(rows)))
        ELSE LET k == CHOOSE i \in same : \A j \in same : j <= i
             IN  [rows EXCEPT ![k] = new(rows[k].id)]

\* INSERT INTO odds_snapshots (...) VALUES (?,?,?,?,?,?)
InsertRow(rows, g, b, m, line, odds, ts) ==
    Append(rows, [id |-> NextId(rows), game_id |-> g, bookmaker |-> b,
                  market_type |-> m, line_value |-> line,
                  odds_american |-> odds, timestamp |-> ts])

\* ts=None, the default of insert_snapshot's parameter ts; timestamps are the
\* positions of the ISO strings in text order, from 1
NoTs == 0

\* ts = ts or datetime.utcnow().isoformat(): a ts that is None (or empty) is
\* replaced by the reading `now` of the clock
Stamp(ts, now) == IF ts = NoTs THEN now ELSE ts

\* the indices of the rows a WHERE game_id=? AND market_type=? ignoring the market
MatchingGameOnly(rows, g, m) ==
    { i \in 1..Len(rows) : rows[i].game_id = g }

\* WHERE game_id=? AND market_type=?
Matching(rows, g, m) ==
    { i \in 1..Len(rows) : rows[i].game_id = g /\ rows[i].market_type = m }

\* ORDER BY timestamp: every arrangement of the selected rows in which the
\* timestamps do not decrease; SQL leaves the order of rows with equal
\* timestamps open
RECURSIVE OrderedByTimestamp(_, _)
OrderedByTimestamp(rows, idx) ==
    IF idx = {} THEN { << >> }
    ELSE LET firsts == { i \in idx :
                           \A j \in idx : rows[i].timestamp <= rows[j].timestamp }
         IN  UNION { { <<i>> \o t : t \in OrderedByTimestamp(rows, idx \ {i}) } :
                     i \in firsts }

\* the data frames load_snapshots(game_id, market_type) can return
LoadResults(rows, g, m) ==
    { [i \in 1..Len(f) |-> rows[f[i]]] :
        f \in OrderedByTimestamp(rows, Matching(rows, g, m)) }

\* a drift that measures from the last line to the first
compute_line_drift_swapped(df_snap) ==
    IF df_snap = << >> THEN None
    ELSE LET first == df_snap[1].line_value
             last == df_snap[Len(df_snap)].line_value
             drift == RSub(first, last)
         IN  [open |-> first, current |-> last, drift |-> drift,
              pct_change |-> IF first # RZero THEN RDiv(drift, first) ELSE RZero]

compute_line_drift(df_snap) ==
    IF df_snap = << >> THEN None
    ELSE LET first == df_snap[1].line_value
             last == df_snap[Len(df_snap)].line_value
             drift == RSub(last, first)
         IN  [open |-> first, current |-> last, drift |-> drift,
              pct_change |-> IF first # RZero THEN RDiv(drift, first) ELSE RZero]

\* ensure_db()
EnsureDb ==
    /\ store' = ensure_db_rows(tableExists, store)
    /\ tableExists' = TRUE
    /\ call' = [op |-> "ensure_db"]
    /\ UNCHANGED <<clock, pipeVars>>

\* insert_snapshot(game_id, bookmaker, market_type, line_value, odds_american, ts)
InsertSnapshot ==
    /\ Len(store) < MaxRows
    /\ \E k \in Keys, line \in Lines, odds \in BookOdds,
          ts \in Times \cup {NoTs}, now \in clock..MaxClock :
          /\ store' = InsertRow(ensure_db_rows(tableExists, store),
                                k[1], k[2], k[3], line, odds, Stamp(ts, now))
          /\ clock' = IF ts = NoTs THEN now ELSE clock
          /\ call' = [op |-> "insert_snapshot", game_id |-> k[1],
                      bookmaker |-> k[2], market_type |-> k[3],
                      line_value |-> line, odds_american |-> odds, ts |-> ts]
    /\ tableExists' = TRUE
    /\ UNCHANGED pipeVars

\* load_snapshots(game_id, market_type)
LoadSnapshots ==
    /\ \E g \in GameIds, m \in MarketTypes :
          \E df \in LoadResults(ensure_db_rows(tableExists, store), g, m) :
              call' = [op |-> "load_snapshots", game_id |-> g,
                       market_type |-> m, ret |-> df]
    /\ store' = ensure_db_rows(tableExists, store)
    /\ tableExists' = TRUE
    /\ UNCHANGED <<clock, pipeVars>>

\* compute_line_drift(df_snap), on the data frame a load_snapshots returned
ComputeLineDrift ==
    /\ call.op = "load_snapshots"
    /\ call' = [op |-> "compute_line_drift", df_snap |-> call.ret,
                ret |-> compute_line_drift(call.ret)]
    /\ UNCHANGED <<storeVars, pipeVars>>

\* main_pipeline.py, run_full_model: a book total that reads the open line
book_total_open(drift, proj_game_total) ==
    IF drift # None /\ drift.open # None THEN drift.open ELSE proj_game_total

\* main_pipeline.py, run_full_model: book total from the drift if there is one,
\* else the model's own total
\*   if drift and drift.get("current") is not None: book_total = drift["current"]
\*   else: book_total = proj_game_total
book_total_of(drift, proj_game_total) ==
    IF drift # None /\ drift.current # None THEN drift.current
    ELSE proj_game_total

\* the step of run_full_model that chooses book_total, on the drift just computed
ChooseBookTotal ==
    /\ call.op = "compute_line_drift"
    /\ \E proj \in ProjTotals :
          call' = [op |-> "book_total", drift |-> call.ret,
                   proj_game_total |-> proj,
                   ret |-> book_total_of(call.ret, proj)]
    /\ UNCHANGED <<storeVars, pipeVars>>

StoreInit ==
    /\ run = IdleRun
    /\ results = EmptyBag
    /\ tableExists = FALSE
    /\ store = << >>
    /\ clock = 1
    /\ call = [op |-> "none"]

StoreNext == EnsureDb \/ InsertSnapshot \/ LoadSnapshots \/ ComputeLineDrift

\* the odds_tracker API, called in any order
StoreSpec == StoreInit /\ [][StoreNext]_vars

\* the ordered snapshot sequences given to compute_line_drift: any lines, in
\* rows whose timestamps do not decrease
SnapshotFrames ==
    UNION { { [i \in 1..n |-> [id |-> i, game_id |-> "MODEL_DEMO_001",
                               bookmaker |-> "BookA", market_type |-> "total",
                               line_value |-> ls[i], odds_american |-> -110,
                               timestamp |-> i]] :
              ls \in [1..n -> DriftLines] } : n \in 0..MaxSnaps }

DriftInit ==
    /\ run = IdleRun
    /\ results = EmptyBag
    /\ tableExists = TRUE
    /\ store = << >>
    /\ clock = 1
    /\ \E df \in SnapshotFrames :
          call = [op |-> "load_snapshots", game_id |-> "MODEL_DEMO_001",
                  market_type |-> "total", ret |-> df]

DriftNext == ComputeLineDrift \/ ChooseBookTotal

\* compute_line_drift and the choice of book_total, on every bounded sequence
DriftSpec == DriftInit /\ [][DriftNext]_vars

-----------------------------------------------------------------------------
(* The claims about the odds store and the drift *)

IsInsert(c) == c.op = "insert_snapshot"

\* C1: the odds store is append-only: in every step of ensure_db,
\* insert_snapshot, load_snapshots and compute_line_drift the records already
\* stored keep every field, the number of records never decreases, a call of
\* insert_snapshot adds exactly one record (with a new id and the fields it was
\* given), and no other call changes the records.
C1_AppendOnly ==
    [][ /\ Len(store') >= Len(store)
        /\ \A i \in 1..Len(store) : store'[i] = store[i]
        /\ IsInsert(call') =>
              /\ Len(store') = Len(store) + 1
              /\ LET r == store'[Len(store')]
                 IN  /\ \A i \in 1..Len(store) : store[i].id # r.id
                     /\ r.game_id = call'.game_id
                     /\ r.bookmaker = call'.bookmaker
                     /\ r.market_type = call'.market_type
                     /\ r.line_value = call'.line_value
                     /\ r.odds_american = call'.odds_american
                     /\ (call'.ts # NoTs => r.timestamp = call'.ts)
        /\ ~IsInsert(call') => store' = store ]_vars

\* C1 witness: a second insert for a (game, bookmaker, market) that already has
\* a record, which is still stored
C1_Witness ==
    /\ IsInsert(call)
    /\ Len(store) = 2
    /\ store[1].game_id = store[2].game_id
    /\ store[1].bookmaker = store[2].bookmaker
    /\ store[1].market_type = store[2].market_type
    /\ store[1].line_value # store[2].line_value

\* the data frame df holds exactly the rows of `rows` with game g and market m,
\* each once, with timestamps that do not decrease
ExactlyTheMatching(df, rows, g, m) ==
    /\ \A i \in 1..Len(df) :
          /\ df[i].game_id = g /\ df[i].market_type = m
          /\ \E k \in 1..Len(rows) : rows[k] = df[i]
    /\ \A k \in 1..Len(rows) :
          (rows[k].game_id = g /\ rows[k].market_type = m)
          => Cardinality({ i \in 1..Len(df) : df[i] = rows[k] }) = 1
    /\ \A i, j \in 1..Len(df) : i < j => df[i].timestamp <= df[j].timestamp

\* C2: load_snapshots(game_id, market_type) returns exactly the stored records
\* of that game and market (of every bookmaker, each once, none of another
\* game or market) in non-decreasing order of timestamp, and leaves the store
\* as it was.
C2_LoadExact ==
    [][ (call'.op = "load_snapshots" /\ call' # call) =>
           /\ store' = store
           /\ ExactlyTheMatching(call'.ret, store, call'.game_id,
                                 call'.market_type) ]_vars

\* C2 witness: a load that returns two records of two bookmakers, inserted
\* against the order of their timestamps
C2_Witness ==
    /\ call.op = "load_snapshots"
    /\ Len(call.ret) = 2
    /\ call.ret[1].bookmaker # call.ret[2].bookmaker
    /\ call.ret[1].id > call.ret[2].id
    /\ call.ret[1].timestamp < call.ret[2].timestamp

\* C2 witness of the selection: a load that leaves out a stored record of
\* another market of the same game
C2_WitnessFilter ==
    /\ call.op = "load_snapshots"
    /\ Len(call.ret) = 1
    /\ \E i \in 1..Len(store) :
          store[i].game_id = call.game_id /\ store[i].market_type # call.market_type

\* C3: within a (game_id, market_type) no two stored records have the same
\* timestamp, and load_snapshots returns the records in insertion order.
C3_UniqueTimestampOrder ==
    /\ \A i, j \in 1..Len(store) :
          (i # j /\ store[i].game_id = store[j].game_id
                 /\ store[i].market_type = store[j].market_type)
          => store[i].timestamp # store[j].timestamp
    /\ call.op = "load_snapshots" =>
          \A i, j \in 1..Len(call.ret) : i < j => call.ret[i].id < call.ret[j].id

\* C4: for a non-empty sequence compute_line_drift returns open = the first
\* line, current = the last line, drift = current - open and pct_change =
\* drift / open (0 when open is 0); [229.5, 228.0] gives 229.5, 228.0, -1.5 and
\* -1.5/229.5.
C4_DriftValues ==
    (call.op = "compute_line_drift" /\ call.df_snap # << >>) =>
        LET df == call.df_snap
            r == call.ret
        IN  /\ r # None
            /\ r.open = df[1].line_value
            /\ r.current = df[Len(df)].line_value
            /\ RAdd(r.open, r.drift) = r.current
            /\ (r.open # RZero => RMul(r.pct_change, r.open) = r.drift)
            /\ (r.open = RZero => r.pct_change = RZero)
            /\ ([i \in 1..Len(df) |-> df[i].line_value] = << <<459, 2>>, <<228, 1>> >>
                 => r = [open |-> <<459, 2>>, current |-> <<228, 1>>,
                         drift |-> <<-3, 2>>, pct_change |-> <<-1, 153>>])

\* C4 witness: the drift of [229.5, 228.0] has been computed
C4_Witness ==
    /\ call.op = "compute_line_drift"
    /\ [i \in 1..Len(call.df_snap) |-> call.df_snap[i].line_value]
          = << <<459, 2>>, <<228, 1>> >>

\* C4 witness of the zero open line
C4_WitnessZeroOpen ==
    /\ call.op = "compute_line_drift"
    /\ Len(call.df_snap) = 2
    /\ call.df_snap[1].line_value = RZero
    /\ call.df_snap[2].line_value # RZero

\* C5: compute_line_drift returns None exactly for the empty sequence; one
\* record, or equal first and last lines, give a present drift of 0 with
\* pct_change 0; and book_total is drift.current when the drift is present and
\* proj_game_total when it is not.
C5_AbsentOnlyWhenEmpty ==
    /\ call.op = "compute_line_drift" =>
          LET df == call.df_snap
          IN  /\ (call.ret = None) <=> (df = << >>)
              /\ (df # << >> /\ df[1].line_value = df[Len(df)].line_value)
                    => /\ call.ret # None
                       /\ call.ret.drift = RZero
                       /\ call.ret.pct_change = RZero
    /\ call.op = "book_total" =>
          /\ (call.drift # None => call.ret = call.drift.current)
          /\ (call.drift = None => call.ret = call.proj_game_total)

\* C5 witness: book_total fell back to proj_game_total because the sequence was
\* empty
C5_Witness ==
    /\ call.op = "book_total"
    /\ call.drift = None
    /\ call.ret = call.proj_game_total

\* C5 witness of a present drift of zero whose current line is not the model's
\* total
C5_WitnessZeroDrift ==
    /\ call.op = "book_total"
    /\ call.drift # None
    /\ call.drift.drift = RZero
    /\ call.ret # call.proj_game_total

-----------------------------------------------------------------------------
(* injuries.py *)

\* the bound of the injury feeds tried
MaxFeed == 2

\* projection tables: one row per player, as calculate_projected_minutes makes
ProjTables ==
    { << [player_id |-> 11, name |-> "Leadoff Star", team |-> "LAL", pos |-> "G",
          proj_min |-> m11],
         [player_id |-> 12, name |-> "Starter Fwd", team |-> "LAL", pos |-> "F",
          proj_min |-> <<20, 1>>],
         [player_id |-> 21, name |-> "BOS Star", team |-> "BOS", pos |-> "G",
          proj_min |-> <<143, 10>>] >> : m11 \in { <<30, 1>>, <<143, 10>> } }

\* injury entries: dicts whose keys status and probability may be missing;
\* player 99 is in no projection table, player 21 in no feed
FeedPlayers == { 11, 12, 99 }
Statuses == { "OUT", "QUESTIONABLE", "PROBABLE" }
Probabilities == { <<0, 1>>, <<7, 10>> }
InjuryEntries ==
    { [player_id |-> p] : p \in FeedPlayers }
    \cup { [player_id |-> p, status |-> st] : p \in FeedPlayers, st \in Statuses }
    \cup { [player_id |-> p, probability |-> pr] :
             p \in FeedPlayers, pr \in Probabilities }
    \cup { [player_id |-> p, status |-> st, probability |-> pr] :
             p \in FeedPlayers, st \in Statuses, pr \in Probabilities }
InjuryFeeds == UNION { [1..n -> InjuryEntries] : n \in 0..MaxFeed }

\* dict.get(key, default)
Get(d, key, default) == IF key \in DOMAIN d THEN d[key] ELSE default

\* pid in proj.index
InIndex(proj, pid) == \E i \in 1..Len(proj) : proj[i].player_id = pid

\* proj.at[pid, "proj_min"] = v
SetProjMin(proj, pid, v) ==
    [i \in 1..Len(proj) |->
        IF proj[i].player_id = pid THEN [proj[i] EXCEPT !.proj_min = v]
        ELSE proj[i]]

\* proj.at[pid, "proj_min"]
ProjMinOf(proj, pid) ==
    (CHOOSE r \in { proj[i] : i \in 1..Len(proj) } : r.player_id = pid).proj_min

\* one pass of the loop that scales the minutes of the input table, not the
\* minutes adjusted so far
ApplyInjuryFromInput(proj, proj_df, inj) ==
    LET pid == inj.player_id
        prob == Get(inj, "probability", <<1, 1>>)
        status == Get(inj, "status", "")
    IN  IF ~InIndex(proj, pid) THEN proj
        ELSE IF status = "OUT" THEN SetProjMin(proj, pid, RZero)
        ELSE IF status = "QUESTIONABLE"
             THEN SetProjMin(proj, pid, RMul(ProjMinOf(proj_df, pid), prob))
        ELSE proj

\* one pass of the loop over injury_feed; proj is the copy being adjusted and
\* proj_df the caller's table
ApplyInjury(proj, proj_df, inj) ==
    LET pid == inj.player_id
        prob == Get(inj, "probability", <<1, 1>>)
        status == Get(inj, "status", "")
    IN  IF ~InIndex(proj, pid) THEN proj
        ELSE IF status = "OUT" THEN SetProjMin(proj, pid, RZero)
        ELSE IF status = "QUESTIONABLE"
             THEN SetProjMin(proj, pid, RMul(ProjMinOf(proj, pid), prob))
        ELSE proj

\* the table after the first k entries of the feed
RECURSIVE AfterEntries(_, _, _)
AfterEntries(proj_df, injury_feed, k) ==
    IF k = 0 THEN proj_df
    ELSE ApplyInjury(AfterEntries(proj_df, injury_feed, k - 1), proj_df,
                     injury_feed[k])

\* redistribute_minutes(proj_df, box_df, injury_feed, team_code); box_df and
\* team_code are not read
redistribute_minutes(proj_df, injury_feed) ==
    AfterEntries(proj_df, injury_feed, Len(injury_feed))

\* a function that adjusts the caller's table itself
CallerTableInPlace(proj_df, proj) == proj

\* proj = proj_df.set_index("player_id").copy(): the adjustments are written to
\* the copy proj, and the caller's table proj_df is after the call what it was
CallerTableAfter(proj_df, proj) == proj_df

\* a call of redistribute_minutes: call keeps the arguments, what is returned,
\* and the caller's table as it is after the call
Redistribute ==
    /\ call.op = "injury_input"
    /\ LET ret == redistribute_minutes(call.proj_df, call.injury_feed)
       IN  call' = [op |-> "redistribute_minutes", proj_df |-> call.proj_df,
                    injury_feed |-> call.injury_feed,
                    ret |-> ret,
                    caller_table |-> CallerTableAfter(call.proj_df, ret)]
    /\ UNCHANGED <<storeVars, pipeVars>>

InjuryInit ==
    /\ run = IdleRun
    /\ results = EmptyBag
    /\ tableExists = FALSE
    /\ store = << >>
    /\ clock = 1
    /\ \E t \in ProjTables, f \in InjuryFeeds :
          call = [op |-> "injury_input", proj_df |-> t, injury_feed |-> f]

InjuryNext == Redistribute

\* redistribute_minutes on every bounded projection table and injury feed
InjurySpec == InjuryInit /\ [][InjuryNext]_vars

-----------------------------------------------------------------------------
(* The claims about the injury adjustment *)

\* the entries of feed f that name player pid with status st
EntriesOf(f, pid, st) ==
    { i \in 1..Len(f) : f[i].player_id = pid /\ Get(f[i], "status", "") = st }

\* C9: after redistribute_minutes every player with at least one OUT entry has
\* proj_min 0, whatever the input minutes, the probabilities, the position of
\* the entry in the feed and the player's other entries.
C9_OutIsZero ==
    call.op = "redistribute_minutes" =>
        \A i \in 1..Len(call.ret) :
            EntriesOf(call.injury_feed, call.ret[i].player_id, "OUT") # {}
            => call.ret[i].proj_min = RZero

\* C9 witness: a player with input 30 whose OUT entry (with probability 0.7) is
\* followed by a QUESTIONABLE entry with probability 0.7
C9_Witness ==
    /\ call.op = "redistribute_minutes"
    /\ call.proj_df[1].proj_min = <<30, 1>>
    /\ Len(call.injury_feed) = 2
    /\ call.injury_feed[1] = [player_id |-> 11, status |-> "OUT",
                              probability |-> <<7, 10>>]
    /\ call.injury_feed[2] = [player_id |-> 11, status |-> "QUESTIONABLE",
                              probability |-> <<7, 10>>]

\* the product of the probabilities of the entries f[i], i in idx
RECURSIVE ProbProduct(_, _)
ProbProduct(f, idx) ==
    IF idx = {} THEN <<1, 1>>
    ELSE LET i == CHOOSE j \in idx : TRUE
         IN  RMul(Get(f[i], "probability", <<1, 1>>), ProbProduct(f, idx \ {i}))

\* C10 as claimed: a player without an OUT entry whom the feed names as
\* QUESTIONABLE with probability p, once or more than once, ends with the
\* input proj_min times p.
C10_QuestionableScalesOnce ==
    call.op = "redistribute_minutes" =>
        \A i \in 1..Len(call.ret) : \A p \in Probabilities :
            LET pid == call.ret[i].player_id
                q == EntriesOf(call.injury_feed, pid, "QUESTIONABLE")
            IN  (/\ EntriesOf(call.injury_feed, pid, "OUT") = {}
                 /\ q # {}
                 /\ \A k \in q : "probability" \in DOMAIN call.injury_feed[k]
                                 /\ call.injury_feed[k].probability = p)
                => call.ret[i].proj_min = RMul(call.proj_df[i].proj_min, p)

\* C10 as amended: a player without an OUT entry ends with the input proj_min
\* times the probability of each of the player's QUESTIONABLE entries (1.0 for
\* an entry without one), so one entry with probability p gives input * p, 0.7
\* on 30 gives 21, and the entry listed twice gives input * p * p.
C10_QuestionableScalesPerEntry ==
    call.op = "redistribute_minutes" =>
        \A i \in 1..Len(call.ret) :
            LET pid == call.ret[i].player_id
                q == EntriesOf(call.injury_feed, pid, "QUESTIONABLE")
            IN  EntriesOf(call.injury_feed, pid, "OUT") = {}
                => /\ call.ret[i].proj_min =
                         RMul(call.proj_df[i].proj_min,
                              ProbProduct(call.injury_feed, q))
                   /\ (/\ Cardinality(q) = 1
                       /\ call.proj_df[i].proj_min = <<30, 1>>
                       /\ \A k \in q :
                             Get(call.injury_feed[k], "probability", <<1, 1>>)
                                = <<7, 10>>)
                      => call.ret[i].proj_min = <<21, 1>>

\* C10 witness: QUESTIONABLE with probability 0.7 listed twice for a player
\* with input 30, who ends with 14.7
C10_Witness ==
    /\ call.op = "redistribute_minutes"
    /\ call.proj_df[1].proj_min = <<30, 1>>
    /\ call.injury_feed = << [player_id |-> 11, status |-> "QUESTIONABLE",
                              probability |-> <<7, 10>>],
                             [player_id |-> 11, status |-> "QUESTIONABLE",
                              probability |-> <<7, 10>>] >>
    /\ call.ret[1].proj_min = <<147, 10>>

\* C10 witness of the single entry: 0.7 on 30 gives 21
C10_WitnessOnce ==
    /\ call.op = "redistribute_minutes"
    /\ call.proj_df[1].proj_min = <<30, 1>>
    /\ call.injury_feed = << [player_id |-> 11, status |-> "QUESTIONABLE",
                              probability |-> <<7, 10>>] >>
    /\ call.ret[1].proj_min = <<21, 1>>

\* C11: redistribute_minutes returns the same players in the same rows with
\* name, team and pos unchanged; a player named by no OUT or QUESTIONABLE entry
\* keeps proj_min; no player's proj_min is raised; entries naming a player who
\* is not in the table change nothing; the caller's table is not modified.
C11_FrameOfRedistribute ==
    call.op = "redistribute_minutes" =>
        /\ Len(call.ret) = Len(call.proj_df)
        /\ \A i \in 1..Len(call.ret) :
              LET in == call.proj_df[i]
                  out == call.ret[i]
                  named == EntriesOf(call.injury_feed, in.player_id, "OUT")
                           \cup EntriesOf(call.injury_feed, in.player_id,
                                          "QUESTIONABLE")
              IN  /\ out.player_id = in.player_id
                  /\ out.name = in.name /\ out.team = in.team /\ out.pos = in.pos
                  /\ DOMAIN out = DOMAIN in
                  /\ named = {} => out.proj_min = in.proj_min
                  /\ RLeq(out.proj_min, in.proj_min)
        /\ (\A k \in 1..Len(call.injury_feed) :
                ~InIndex(call.proj_df, call.injury_feed[k].player_id))
              => call.ret = call.proj_df
        /\ call.caller_table = call.proj_df

\* C11 witness: a feed that names a player who is not in the table and gives
\* player 11 QUESTIONABLE 0.7: only the proj_min of player 11 has changed, and
\* the caller's table still holds the minutes it held
C11_Witness ==
    /\ call.op = "redistribute_minutes"
    /\ call.injury_feed = << [player_id |-> 99, status |-> "OUT"],
                             [player_id |-> 11, status |-> "QUESTIONABLE",
                              probability |-> <<7, 10>>] >>
    /\ call.ret[1].proj_min # call.proj_df[1].proj_min
    /\ call.ret[2] = call.proj_df[2] /\ call.ret[3] = call.proj_df[3]
    /\ call.caller_table = call.proj_df

-----------------------------------------------------------------------------
(* main_pipeline.py: the box scores *)

\* the outcomes of the random draws of build_synthetic_box that are tried
Seeds == { 1, 2 }

SAMPLE_PLAYERS ==
    << [player_id |-> 11, name |-> "Leadoff Star", team |-> "LAL", pos |-> "G"],
       [player_id |-> 12, name |-> "Starter Fwd", team |-> "LAL", pos |-> "F"],
       [player_id |-> 13, name |-> "Backup Wing", team |-> "LAL", pos |-> "G"],
       [player_id |-> 21, name |-> "BOS Star", team |-> "BOS", pos |-> "G"],
       [player_id |-> 22, name |-> "BOS Role", team |-> "BOS", pos |-> "F"],
       [player_id |-> 23, name |-> "BOS Bench", team |-> "BOS", pos |-> "C"] >>

\* pd.date_range(end=today, periods=20): the dates are day 1 to day 20
SyntheticPeriods == 20

\* the k-th random draw for date d and player p, a number in 0..(n - 1); every
\* seed stands for one outcome of the generator's draws
Draw(seed, d, p, k, n) == (seed * 31 + d * 17 + p * 13 + k * 7 + seed * d * p) % n

\* the row build_synthetic_box makes for date d and the p-th sample player
SyntheticRow(seed, d, p) ==
    LET pl == SAMPLE_PLAYERS[p]
        played == Draw(seed, d, p, 1, 20) # 0
        base_min == IF pl.player_id \in {11, 21} THEN 30 ELSE 14
        minutes == IF played
                   THEN RMax(RZero, Rat(base_min * 10 + Draw(seed, d, p, 2, 91) - 45, 10))
                   ELSE RZero
        pts == Round1(RMax(RZero, RAdd(RMul(minutes, <<45, 100>>),
                                       Rat(Draw(seed, d, p, 3, 101) - 50, 10))))
    IN  << [game_date |-> d, player_id |-> pl.player_id, player_name |-> pl.name,
            team |-> pl.team, pos |-> pl.pos, minutes |-> minutes, pts |-> pts,
            team_pts |-> 110 + Draw(seed, d, p, 4, 33) - 16] >>

\* build_synthetic_box(): a row for each of the 20 dates and each sample player
RECURSIVE SyntheticRows(_, _, _)
SyntheticRows(seed, lo, hi) ==
    LET n == Len(SAMPLE_PLAYERS)
        mid == (lo + hi) \div 2
    IN  IF lo > hi THEN << >>
        ELSE IF lo = hi
        THEN SyntheticRow(seed, ((lo - 1) \div n) + 1, ((lo - 1) % n) + 1)
        ELSE SyntheticRows(seed, lo, mid) \o SyntheticRows(seed, mid + 1, hi)

build_synthetic_box(seed) ==
    SyntheticRows(seed, 1, SyntheticPeriods * Len(SAMPLE_PLAYERS))

\* a box score the data source returns: three teams over two dates, minutes
\* from "mm:ss"
RealBox ==
    << [game_date |-> 1, player_id |-> 11, player_name |-> "A Guard", team |-> "LAL",
        pos |-> "G", minutes |-> <<687, 20>>, pts |-> <<28, 1>>, team_pts |-> 112],
       [game_date |-> 1, player_id |-> 12, player_name |-> "B Forward", team |-> "LAL",
        pos |-> "F", minutes |-> <<30, 1>>, pts |-> <<15, 1>>, team_pts |-> 112],
       [game_date |-> 1, player_id |-> 21, player_name |-> "C Guard", team |-> "BOS",
        pos |-> "G", minutes |-> <<36, 1>>, pts |-> <<31, 1>>, team_pts |-> 105],
       [game_date |-> 2, player_id |-> 11, player_name |-> "A Guard", team |-> "LAL",
        pos |-> "G", minutes |-> <<33, 1>>, pts |-> <<22, 1>>, team_pts |-> 99],
       [game_date |-> 2, player_id |-> 31, player_name |-> "D Center", team |-> "NYK",
        pos |-> "?", minutes |-> RZero, pts |-> <<0, 1>>, team_pts |-> 101] >>

SyntheticBoxTable == [seed \in Seeds |-> build_synthetic_box(seed)]

SyntheticBoxOf(seed) ==
    IF seed \in DOMAIN SyntheticBoxTable THEN SyntheticBoxTable[seed]
    ELSE build_synthetic_box(seed)

\* The box scores a run can work on. What is a function of the box score alone
\* is evaluated once for each of them, and read from that table where the
\* table has it.
BoxScores == { RealBox } \cup { SyntheticBoxTable[seed] : seed \in Seeds }

-----------------------------------------------------------------------------
(* minutes_model.py *)

\* rolling(window=10) and fillna(20)
RollWindow == 10
DefaultMinutes == 20

\* the player_ids of a box score
PlayersOf(box_df) == { box_df[i].player_id : i \in 1..Len(box_df) }

\* sort_values("game_date") of a player's rows (rows of equal date keep their
\* order)
RECURSIVE SortByDate(_)
SortByDate(rows) ==
    IF rows = << >> THEN << >>
    ELSE LET n == Len(rows)
             i == CHOOSE k \in 1..n :
                    /\ \A j \in 1..n : rows[k].game_date <= rows[j].game_date
                    /\ \A j \in 1..(k - 1) : rows[j].game_date # rows[k].game_date
         IN  <<rows[i]>> \o SortByDate(SubSeq(rows, 1, i - 1) \o SubSeq(rows, i + 1, n))

\* the rows of player pid in date order
GamesOf(box_df, pid) ==
    LET Mine(r) == r.player_id = pid
    IN  SortByDate(SelectSeq(box_df, Mine))

\* the rolling mean of minutes at a player's latest game: over the last 10
\* games, NaN (None here) while there are fewer than 10
LatestRollMin(games) ==
    LET n == Len(games)
    IN  IF n < RollWindow THEN None
        ELSE RMean([i \in 1..n |-> games[i].minutes], (n - RollWindow + 1)..n)

\* the projection row of player pid: the latest game's name, team and pos, the
\* rolling value there or 20, rounded to one decimal
ProjectionOf(box_df, pid) ==
    LET games == GamesOf(box_df, pid)
        last == games[Len(games)]
        roll == LatestRollMin(games)
    IN  [player_id |-> pid, name |-> last.player_name, team |-> last.team,
         pos |-> last.pos,
         proj_min |-> Round1(IF roll = None THEN <<DefaultMinutes, 1>> ELSE roll)]

\* the elements of a set of integers in increasing order
RECURSIVE Ascending(_)
Ascending(S) ==
    IF S = {} THEN << >>
    ELSE LET m == CHOOSE x \in S : \A y \in S : x <= y
         IN  <<m>> \o Ascending(S \ {m})

\* calculate_projected_minutes(box_df), for box scores with one row per player
\* and game_date; the rows are listed by player_id
calculate_projected_minutes(box_df) ==
    LET ids == Ascending(PlayersOf(box_df))
    IN  [k \in 1..Len(ids) |-> ProjectionOf(box_df, ids[k])]

ProjectedMinutesTable == [b \in BoxScores |-> calculate_projected_minutes(b)]

ProjectedMinutesOf(box_df) ==
    IF box_df \in DOMAIN ProjectedMinutesTable THEN ProjectedMinutesTable[box_df]
    ELSE calculate_projected_minutes(box_df)

-----------------------------------------------------------------------------
(* minutes_model.py, statement by statement, for box scores with any rows *)

\* the longest game log of the player under study
MaxGames == 11

\* one box-score row; the name, team and position recorded change over the
\* dates
PlayerRow(pid, d, m) ==
    [game_date |-> d, player_id |-> pid,
     player_name |-> IF d >= RollWindow THEN "A Guard Jr" ELSE "A Guard",
     team |-> IF d % 2 = 0 THEN "LAL" ELSE "BOS",
     pos |-> IF d % 3 = 0 THEN "F" ELSE "G",
     minutes |-> m, pts |-> <<10, 1>>, team_pts |-> 100]

\* n games of player 1 on the dates 1..n: 30 minutes each, but 40.5 in game h
GameLog(n, h) ==
    [d \in 1..n |-> PlayerRow(1, d, IF d = h THEN <<81, 2>> ELSE <<30, 1>>)]

\* nothing, or a second row of player 1 for the date d
SecondRows(n) ==
    { << >> } \cup
    { << [PlayerRow(1, d, <<12, 1>>) EXCEPT !.team = "NYK", !.player_name = "A Guard II"] >> :
        d \in { 1, n } \cap (1..n) }

\* nothing, or the one game of player 2
OtherPlayerRows == { << >>, << PlayerRow(2, 3, <<55, 1>>) >> }

\* the rows in the order given, in the opposite order, or the last row first
RowOrders == { "ascending", "descending", "rotated" }
Reorder(rows, way) ==
    LET n == Len(rows)
    IN  IF way = "descending" THEN [i \in 1..n |-> rows[n + 1 - i]]
        ELSE IF way = "rotated" /\ n > 0 THEN <<rows[n]>> \o SubSeq(rows, 1, n - 1)
        ELSE rows

\* the box scores calculate_projected_minutes is applied to
MinutesBoxes ==
    UNION { UNION { { Reorder(GameLog(n, h) \o extra \o other, way) :
                        extra \in SecondRows(n), other \in OtherPlayerRows,
                        way \in RowOrders } :
                    h \in 0..n } :
            n \in 0..MaxGames }

\* sort_values("game_date"): every arrangement of the rows idx in which the
\* dates do not decrease; the default sort leaves the order of rows with equal
\* dates open
RECURSIVE SortedByDate(_, _)
SortedByDate(rows, idx) ==
    IF idx = {} THEN { << >> }
    ELSE LET firsts == { i \in idx :
                           \A j \in idx : rows[i].game_date <= rows[j].game_date }
         IN  UNION { { <<i>> \o t : t \in SortedByDate(rows, idx \ {i}) } :
                     i \in firsts }

\* a rolling mean over a player's games so far, as rolling(min_periods=1) has it
RollingMeanMinPeriods1(box_df, o, k) ==
    LET Mine(i) == box_df[i].player_id = box_df[o[k]].player_id
        prev == SelectSeq(SubSeq(o, 1, k), Mine)
        n == Len(prev)
        lo == IF n < RollWindow THEN 1 ELSE n - RollWindow + 1
    IN  RMean([j \in 1..n |-> box_df[prev[j]].minutes], lo..n)

\* a mean over all of a player's games so far
RollingMeanExpanding(box_df, o, k) ==
    LET Mine(i) == box_df[i].player_id = box_df[o[k]].player_id
        prev == SelectSeq(SubSeq(o, 1, k), Mine)
        n == Len(prev)
    IN  IF n < RollWindow THEN None
        ELSE RMean([j \in 1..n |-> box_df[prev[j]].minutes], 1..n)

\* groupby("player_id").rolling(window=10, on="game_date")["minutes"].mean()
\* at the k-th row of the sorted frame o: the mean over that player's last 10
\* rows up to there, NaN (None here) while the player has fewer than 10
RollingMean(box_df, o, k) ==
    LET Mine(i) == box_df[i].player_id = box_df[o[k]].player_id
        prev == SelectSeq(SubSeq(o, 1, k), Mine)
        n == Len(prev)
    IN  IF n < RollWindow THEN None
        ELSE RMean([j \in 1..n |-> box_df[prev[j]].minutes], (n - RollWindow + 1)..n)

\* roll: one row (player_id, game_date, roll_min) per row of the sorted frame
RollFrame(box_df, o) ==
    [k \in 1..Len(o) |->
        [player_id |-> box_df[o[k]].player_id, game_date |-> box_df[o[k]].game_date,
         roll_min |-> RollingMean(box_df, o, k)]]

\* box_df.merge(roll, on=["player_id", "game_date"], how="left"): a row for
\* every pair of a box-score row and a roll row with its player and date
MergeRoll(box_df, roll) ==
    LET n == Len(box_df)
        pairs == [j \in 1..(n * n) |-> <<((j - 1) \div n) + 1, ((j - 1) % n) + 1>>]
        Match(p) == /\ box_df[p[1]].player_id = roll[p[2]].player_id
                    /\ box_df[p[1]].game_date = roll[p[2]].game_date
        sel == SelectSeq(pairs, Match)
    IN  [j \in 1..Len(sel) |->
            [game_date |-> box_df[sel[j][1]].game_date,
             player_id |-> box_df[sel[j][1]].player_id,
             player_name |-> box_df[sel[j][1]].player_name,
             team |-> box_df[sel[j][1]].team, pos |-> box_df[sel[j][1]].pos,
             roll_min |-> roll[sel[j][2]].roll_min]]

\* every row of a player's latest date
TailAtLatestDate(rows) ==
    LET n == Len(rows)
        keep == { j \in 1..n : \A l \in 1..n :
                    rows[l].player_id = rows[j].player_id
                        => rows[l].game_date <= rows[j].game_date }
        idx == Ascending(keep)
    IN  [j \in 1..Len(idx) |-> rows[idx[j]]]

\* groupby("player_id").tail(1): of every player the last row, in the order of
\* the frame
TailOne(rows) ==
    LET n == Len(rows)
        keep == { j \in 1..n : \A l \in (j + 1)..n :
                    rows[l].player_id # rows[j].player_id }
        idx == Ascending(keep)
    IN  [j \in 1..Len(idx) |-> rows[idx[j]]]

\* the columns of proj_df: roll_min renamed, NaN filled with 20, rounded
ProjFrame(last_games) ==
    [j \in 1..Len(last_games) |->
        [player_id |-> last_games[j].player_id, name |-> last_games[j].player_name,
         team |-> last_games[j].team, pos |-> last_games[j].pos,
         proj_min |-> Round1(IF last_games[j].roll_min = None
                             THEN <<DefaultMinutes, 1>>
                             ELSE last_games[j].roll_min)]]

\* every frame calculate_projected_minutes(box_df) can return, over the orders
\* the two sorts can leave rows of equal date in
ProjectedMinutesOutcomes(box_df) ==
    UNION { LET merged == MergeRoll(box_df, RollFrame(box_df, o1))
            IN  { ProjFrame(TailOne([j \in 1..Len(merged) |-> merged[o2[j]]])) :
                    o2 \in SortedByDate(merged, 1..Len(merged)) } :
            o1 \in SortedByDate(box_df, 1..Len(box_df)) }

CalculateProjectedMinutes ==
    /\ call.op = "minutes_input"
    /\ \E ret \in ProjectedMinutesOutcomes(call.box_df) :
          call' = [op |-> "calculate_projected_minutes", box_df |-> call.box_df,
                   ret |-> ret]
    /\ UNCHANGED <<storeVars, pipeVars>>

MinutesInit ==
    /\ run = IdleRun
    /\ results = EmptyBag
    /\ tableExists = FALSE
    /\ store = << >>
    /\ clock = 1
    /\ \E b \in MinutesBoxes : call = [op |-> "minutes_input", box_df |-> b]

MinutesNext == CalculateProjectedMinutes

\* calculate_projected_minutes on every bounded box score
MinutesSpec == MinutesInit /\ [][MinutesNext]_vars

-----------------------------------------------------------------------------
(* The claims about the minutes projection *)

\* the number of rows of player pid in a frame
RowCount(rows, pid) == Cardinality({ i \in 1..Len(rows) : rows[i].player_id = pid })

\* the rows of player pid in the frame returned
ReturnedFor(pid) == { j \in 1..Len(call.ret) : call.ret[j].player_id = pid }

\* C12: a player with at least one but fewer than 10 box-score rows is
\* projected at exactly 20.0 minutes, whatever minutes the rows record
C12_FewGamesGetDefault ==
    call.op = "calculate_projected_minutes" =>
        \A pid \in PlayersOf(call.box_df) :
            RowCount(call.box_df, pid) < RollWindow =>
                /\ ReturnedFor(pid) # {}
                /\ \A j \in ReturnedFor(pid) :
                      call.ret[j].proj_min = <<DefaultMinutes, 1>>

\* nine rows of player 1, none of 20 minutes, projected at 20.0
C12_Witness ==
    /\ call.op = "calculate_projected_minutes"
    /\ RowCount(call.box_df, 1) = RollWindow - 1
    /\ \A i \in 1..Len(call.box_df) : call.box_df[i].minutes # <<DefaultMinutes, 1>>
    /\ \E i \in 1..Len(call.box_df) : call.box_df[i].minutes = <<81, 2>>
    /\ \E j \in ReturnedFor(1) : call.ret[j].proj_min = <<DefaultMinutes, 1>>

\* the rows of player pid, and whether each is of another date
RowsOfPlayer(rows, pid) == { i \in 1..Len(rows) : rows[i].player_id = pid }
DistinctDates(rows, pid) ==
    \A i, k \in RowsOfPlayer(rows, pid) :
        rows[i].game_date = rows[k].game_date => i = k

\* the 10 rows of player pid with the latest dates
MostRecentGames(rows, pid) ==
    { i \in RowsOfPlayer(rows, pid) :
        Cardinality({ k \in RowsOfPlayer(rows, pid) :
                        rows[k].game_date > rows[i].game_date }) < RollWindow }

\* r is x rounded to one decimal: a multiple of 0.1 at most 0.05 from x
RoundedToOneDecimal(r, x) ==
    /\ (10 * r[1]) % r[2] = 0
    /\ RLeq(RSub(r, x), <<1, 20>>)
    /\ RLeq(RSub(x, r), <<1, 20>>)

\* C13: a player with 10 or more games (one row per game date), in any row
\* order, is projected at the mean of the minutes of the 10 games with the
\* latest dates, rounded to one decimal, and is given the name, team and
\* position of the latest game
C13_MeanOfTenMostRecent ==
    call.op = "calculate_projected_minutes" =>
        \A pid \in PlayersOf(call.box_df) :
            (RowCount(call.box_df, pid) >= RollWindow /\ DistinctDates(call.box_df, pid)) =>
                LET recent == MostRecentGames(call.box_df, pid)
                    mean == RMean([i \in 1..Len(call.box_df) |-> call.box_df[i].minutes],
                                  recent)
                    latest == CHOOSE i \in recent :
                                \A k \in recent :
                                    call.box_df[k].game_date <= call.box_df[i].game_date
                IN  /\ Cardinality(recent) = RollWindow
                    /\ ReturnedFor(pid) # {}
                    /\ \A j \in ReturnedFor(pid) :
                          /\ RoundedToOneDecimal(call.ret[j].proj_min, mean)
                          /\ call.ret[j].name = call.box_df[latest].player_name
                          /\ call.ret[j].team = call.box_df[latest].team
                          /\ call.ret[j].pos = call.box_df[latest].pos

\* eleven games listed latest first, 40.5 minutes in the oldest and 30 in the
\* others: projected at 30.0 with the name, team and position of date 11
C13_Witness ==
    /\ call.op = "calculate_projected_minutes"
    /\ RowCount(call.box_df, 1) = RollWindow + 1
    /\ DistinctDates(call.box_df, 1)
    /\ call.box_df[1].game_date = RollWindow + 1
    /\ \E i \in 1..Len(call.box_df) :
          call.box_df[i].game_date = 1 /\ call.box_df[i].minutes = <<81, 2>>
    /\ \E j \in ReturnedFor(1) :
          /\ call.ret[j].proj_min = <<30, 1>>
          /\ call.ret[j].name = "A Guard Jr"
          /\ call.ret[j].team = "BOS"
          /\ call.ret[j].pos = "G"

\* C14: the frame returned has exactly one row for every player_id of the
\* input rows and no row for any other, also when a player has two rows of one
\* game_date
C14_OneRowPerPlayer ==
    call.op = "calculate_projected_minutes" =>
        /\ \A pid \in PlayersOf(call.box_df) : Cardinality(ReturnedFor(pid)) = 1
        /\ \A j \in 1..Len(call.ret) : call.ret[j].player_id \in PlayersOf(call.box_df)

\* player 1 with two rows of the latest date and player 2 with no row: one
\* row, of player 1
C14_Witness ==
    /\ call.op = "calculate_projected_minutes"
    /\ \E i, k \in RowsOfPlayer(call.box_df, 1) :
          /\ i # k
          /\ call.box_df[i].game_date = call.box_df[k].game_date
          /\ \A l \in 1..Len(call.box_df) :
                call.box_df[l].game_date <= call.box_df[i].game_date
    /\ RowsOfPlayer(call.box_df, 2) = {}
    /\ Len(call.ret) = 1
    /\ call.ret[1].player_id = 1

-----------------------------------------------------------------------------
(* team_ratings.py *)

\* poss = fga + 0.4 * fta - oreb + tov
PossOf(g) ==
    RAdd(RSub(RAdd(<<g.fga, 1>>, RMul(<<4, 10>>, <<g.fta, 1>>)), <<g.oreb, 1>>),
         <<g.tov, 1>>)

\* ratings whose league average is taken over the team-game rows, so that a
\* team counts once for each of its games
estimate_team_ratings_by_game(team_game_df) ==
    LET n == Len(team_game_df)
        teams == { team_game_df[i].team : i \in 1..n }
        of(t) == { i \in 1..n : team_game_df[i].team = t }
        OffPts(t) == RMean([i \in 1..n |-> <<team_game_df[i].team_pts, 1>>], of(t))
        Poss(t) == RMean([i \in 1..n |-> PossOf(team_game_df[i])], of(t))
        OffRtg(t) == RDiv(OffPts(t), RDiv(Poss(t), <<100, 1>>))
        league_avg == RMean([i \in 1..n |-> OffRtg(team_game_df[i].team)], 1..n)
    IN  { [team |-> t, OffRtg |-> OffRtg(t),
           DefRtg |-> RAdd(<<100, 1>>, RSub(league_avg, OffRtg(t))),
           Poss |-> Poss(t)] : t \in teams }

\* estimate_team_ratings(team_game_df): the rows [team, OffRtg, DefRtg, Poss]
estimate_team_ratings(team_game_df) ==
    LET n == Len(team_game_df)
        teams == { team_game_df[i].team : i \in 1..n }
        of(t) == { i \in 1..n : team_game_df[i].team = t }
        OffPts(t) == RMean([i \in 1..n |-> <<team_game_df[i].team_pts, 1>>], of(t))
        Poss(t) == RMean([i \in 1..n |-> PossOf(team_game_df[i])], of(t))
        OffRtg(t) == RDiv(OffPts(t), RDiv(Poss(t), <<100, 1>>))
        league_avg == RMeanSet([t \in teams |-> OffRtg(t)], teams)
    IN  { [team |-> t, OffRtg |-> OffRtg(t),
           DefRtg |-> RAdd(<<100, 1>>, RSub(league_avg, OffRtg(t))),
           Poss |-> Poss(t)] : t \in teams }

\* a rate that counts the points of every row, also of rows without minutes
PtsPerMinAllPoints(box_df) ==
    LET n == Len(box_df)
        valid == { i \in 1..n : RLess(RZero, box_df[i].minutes) }
    IN  IF valid = {} THEN <<1, 2>>
        ELSE RDiv(RSum([i \in 1..n |-> box_df[i].pts], 1..n),
                  RSum([i \in 1..n |-> box_df[i].minutes], valid))

\* pts_per_min: sum(pts) / sum(minutes) over the rows with minutes > 0, or 0.5
PtsPerMin(box_df) ==
    LET n == Len(box_df)
        valid == { i \in 1..n : RLess(RZero, box_df[i].minutes) }
    IN  IF valid = {} THEN <<1, 2>>
        ELSE RDiv(RSum([i \in 1..n |-> box_df[i].pts], valid),
                  RSum([i \in 1..n |-> box_df[i].minutes], valid))

PtsPerMinTable == [b \in BoxScores |-> PtsPerMin(b)]

PtsPerMinOf(box_df) ==
    IF box_df \in DOMAIN PtsPerMinTable THEN PtsPerMinTable[box_df]
    ELSE PtsPerMin(box_df)

\* a matchup adjustment that never projects below zero
apply_position_matchup_floored(proj_df, box_df, matchup_profile, opponent_team) ==
    LET pts_per_min == PtsPerMinOf(box_df)
        Row(r) ==
            LET base_pts == RMul(r.proj_min, pts_per_min)
                adj_pct == Get(Get(matchup_profile, opponent_team, << >>),
                               r.pos, RZero)
            IN  [player_id |-> r.player_id, name |-> r.name, team |-> r.team,
                 pos |-> r.pos, proj_min |-> r.proj_min,
                 proj_pts_base |-> base_pts,
                 proj_pts_adj |-> RMax(RZero, RMul(base_pts, RAdd(<<1, 1>>, adj_pct)))]
    IN  [i \in 1..Len(proj_df) |-> Row(proj_df[i])]

\* apply_position_matchup(proj_df, box_df, matchup_profile, opponent_team)
apply_position_matchup(proj_df, box_df, matchup_profile, opponent_team) ==
    LET pts_per_min == PtsPerMinOf(box_df)
        Row(r) ==
            LET base_pts == RMul(r.proj_min, pts_per_min)
                adj_pct == Get(Get(matchup_profile, opponent_team, << >>),
                               r.pos, RZero)
            IN  [player_id |-> r.player_id, name |-> r.name, team |-> r.team,
                 pos |-> r.pos, proj_min |-> r.proj_min,
                 proj_pts_base |-> base_pts,
                 proj_pts_adj |-> RMul(base_pts, RAdd(<<1, 1>>, adj_pct))]
    IN  [i \in 1..Len(proj_df) |-> Row(proj_df[i])]

-----------------------------------------------------------------------------
(* team_ratings.py: apply_position_matchup on bounded inputs *)

\* the longest box score passed
MaxBoxRows == 2

\* box-score rows by minutes and points: no minutes, no minutes but points
\* recorded, and two rows with minutes
BoxRowChoices ==
    { [PlayerRow(1, 1, mp[1]) EXCEPT !.pts = mp[2]] :
        mp \in { <<RZero, RZero>>, <<RZero, <<2, 1>>>>, <<<<30, 1>>, <<12, 1>>>>,
                 <<<<51, 2>>, <<20, 1>>>> } }

MatchupBoxes == UNION { [1..n -> BoxRowChoices] : n \in 0..MaxBoxRows }

\* matchup_profile: a dict of dicts, team -> pos -> modifier; the empty one the
\* pipeline passes, one with a modifier of -1.5 for guards, one of -1 and +0.1
MatchupProfiles ==
    { << >>,
      [t \in { "BOS" } |-> [p \in { "G" } |-> <<-3, 2>>]],
      [t \in { "BOS" } |-> [p \in { "G", "F" } |-> IF p = "G" THEN <<-1, 1>> ELSE <<1, 10>>]] }

OpponentTeams == { "GENERIC", "BOS" }

ApplyPositionMatchup ==
    /\ call.op = "matchup_input"
    /\ call' = [op |-> "apply_position_matchup", proj_df |-> call.proj_df,
                box_df |-> call.box_df, matchup_profile |-> call.matchup_profile,
                opponent_team |-> call.opponent_team,
                pts_per_min |-> PtsPerMinOf(call.box_df),
                ret |-> apply_position_matchup(call.proj_df, call.box_df,
                                               call.matchup_profile,
                                               call.opponent_team)]
    /\ UNCHANGED <<storeVars, pipeVars>>

MatchupInit ==
    /\ run = IdleRun
    /\ results = EmptyBag
    /\ tableExists = FALSE
    /\ store = << >>
    /\ clock = 1
    /\ \E t \in ProjTables \cup { << >> }, b \in MatchupBoxes, m \in MatchupProfiles, o \in OpponentTeams :
          call = [op |-> "matchup_input", proj_df |-> t, box_df |-> b,
                  matchup_profile |-> m, opponent_team |-> o]

MatchupNext == ApplyPositionMatchup

\* apply_position_matchup on every bounded projection, box score and profile
MatchupSpec == MatchupInit /\ [][MatchupNext]_vars

-----------------------------------------------------------------------------
(* The claims about the matchup adjustment *)

\* the rows of the box score passed that have minutes
RowsWithMinutes ==
    { i \in 1..Len(call.box_df) : RLess(RZero, call.box_df[i].minutes) }
MinutesPlayed ==
    RSum([i \in 1..Len(call.box_df) |-> call.box_df[i].minutes], RowsWithMinutes)
PointsScored ==
    RSum([i \in 1..Len(call.box_df) |-> call.box_df[i].pts], RowsWithMinutes)

\* C16: the league scoring rate is sum(pts) / sum(minutes) over the rows with
\* minutes > 0 and the constant 0.5 when there is none, so that with
\* non-negative minutes nothing is divided by zero
C16_LeagueRate ==
    call.op = "apply_position_matchup" =>
        /\ RowsWithMinutes = {} => call.pts_per_min = <<1, 2>>
        /\ RowsWithMinutes # {} =>
              /\ RLess(RZero, MinutesPlayed)
              /\ call.pts_per_min = RDiv(PointsScored, MinutesPlayed)
        /\ \A i \in 1..Len(call.ret) :
              call.ret[i].proj_pts_base = RMul(call.proj_df[i].proj_min, call.pts_per_min)

\* a row without minutes that records points, then a row of 30 minutes and 12
\* points: the rate is 12 / 30
C16_Witness ==
    /\ call.op = "apply_position_matchup"
    /\ Len(call.box_df) = 2
    /\ call.box_df[1].minutes = RZero /\ call.box_df[1].pts = <<2, 1>>
    /\ call.box_df[2].minutes = <<30, 1>>
    /\ call.pts_per_min = <<2, 5>>
    /\ Len(call.ret) = 3
    /\ call.ret[1].proj_pts_base = RMul(call.proj_df[1].proj_min, <<2, 5>>)

\* the modifier the profile passed has for the opponent and a position, 0
\* when the team or the position is absent
ModifierFor(pos) ==
    IF call.opponent_team \in DOMAIN call.matchup_profile
    THEN IF pos \in DOMAIN call.matchup_profile[call.opponent_team]
         THEN call.matchup_profile[call.opponent_team][pos]
         ELSE RZero
    ELSE RZero

\* C17: one row per input row with proj_min unchanged, proj_pts_base =
\* proj_min * pts_per_min and proj_pts_adj = proj_pts_base * (1 + a), a the
\* profile's modifier for (opponent_team, pos) or 0 when absent; nothing floors
\* the result (a <= -1 with a positive base gives a value <= 0), and with an
\* empty profile proj_pts_adj equals proj_pts_base in every row
C17_MatchupAdjustment ==
    call.op = "apply_position_matchup" =>
        /\ Len(call.ret) = Len(call.proj_df)
        /\ \A i \in 1..Len(call.ret) :
              LET in == call.proj_df[i]
                  out == call.ret[i]
                  a == ModifierFor(in.pos)
              IN  /\ out.player_id = in.player_id
                  /\ out.proj_min = in.proj_min
                  /\ out.proj_pts_base = RMul(in.proj_min, call.pts_per_min)
                  /\ out.proj_pts_adj = RMul(out.proj_pts_base, RAdd(<<1, 1>>, a))
                  /\ (RLeq(a, <<-1, 1>>) /\ RLess(RZero, out.proj_pts_base))
                        => RLeq(out.proj_pts_adj, RZero)
                  /\ DOMAIN call.matchup_profile = {} => out.proj_pts_adj = out.proj_pts_base

\* against BOS with -1.5 for guards and nothing for forwards: the guard of row
\* 1 has a positive base and a negative adjusted value, the forward of row 2
\* keeps the base
C17_Witness ==
    /\ call.op = "apply_position_matchup"
    /\ call.opponent_team = "BOS"
    /\ ModifierFor("G") = <<-3, 2>>
    /\ "F" \notin DOMAIN call.matchup_profile["BOS"]
    /\ Len(call.ret) = 3
    /\ call.ret[1].pos = "G"
    /\ RLess(RZero, call.ret[1].proj_pts_base)
    /\ RLess(call.ret[1].proj_pts_adj, RZero)
    /\ call.ret[2].pos = "F"
    /\ call.ret[2].proj_pts_adj = call.ret[2].proj_pts_base
    /\ RLess(RZero, call.ret[2].proj_pts_base)

-----------------------------------------------------------------------------
(* team_ratings.py: estimate_team_ratings on bounded team-game frames *)

\* the longest team-game frame
MaxTeamGames == 3

\* team-game rows: two teams, two scores, two sets of shot counts (95 and 92.6
\* possessions)
TeamGameRowChoices ==
    { [team |-> t, team_pts |-> p, fga |-> c[1], fta |-> c[2], oreb |-> c[3],
       tov |-> c[4]] :
        t \in { "LAL", "BOS" }, p \in { 100, 110 },
        c \in { <<85, 20, 10, 12>>, <<80, 24, 8, 11>> } }

TeamGameFrames ==
    UNION { [1..n -> TeamGameRowChoices] : n \in 1..MaxTeamGames }

EstimateTeamRatings ==
    /\ call.op = "ratings_input"
    /\ call' = [op |-> "estimate_team_ratings", team_game_df |-> call.team_game_df,
                ret |-> estimate_team_ratings(call.team_game_df)]
    /\ UNCHANGED <<storeVars, pipeVars>>

RatingsInit ==
    /\ run = IdleRun
    /\ results = EmptyBag
    /\ tableExists = FALSE
    /\ store = << >>
    /\ clock = 1
    /\ \E f \in TeamGameFrames : call = [op |-> "ratings_input", team_game_df |-> f]

RatingsNext == EstimateTeamRatings

\* estimate_team_ratings on every bounded team-game frame
RatingsSpec == RatingsInit /\ [][RatingsNext]_vars

-----------------------------------------------------------------------------
(* The claim about the team ratings *)

\* the rows of team t in the frame passed, and their means of points and of
\* possessions
GamesOfTeam(t) ==
    { i \in 1..Len(call.team_game_df) : call.team_game_df[i].team = t }
MeanTeamPts(t) ==
    RMean([i \in 1..Len(call.team_game_df) |-> <<call.team_game_df[i].team_pts, 1>>],
          GamesOfTeam(t))
MeanPoss(t) ==
    RMean([i \in 1..Len(call.team_game_df) |->
              Rat(10 * call.team_game_df[i].fga + 4 * call.team_game_df[i].fta
                    - 10 * call.team_game_df[i].oreb + 10 * call.team_game_df[i].tov,
                  10)],
          GamesOfTeam(t))

\* L: the mean of OffRtg over the rows returned, each team counting once
LeagueAverage == RMeanSet([r \in call.ret |-> r.OffRtg], call.ret)

\* C15: one row per team; Poss is the mean of fga + 0.4 fta - oreb + tov over
\* the team's rows, OffRtg the mean of team_pts over Poss / 100, DefRtg is
\* 100 + (L - OffRtg) with L the unweighted mean of OffRtg over the teams; so
\* teams of equal OffPts and Poss are rated equally, OffRtg + DefRtg is
\* 100 + L for every team, and the mean of DefRtg over the teams is 100
C15_TeamRatings ==
    call.op = "estimate_team_ratings" =>
        LET teams == { call.team_game_df[i].team : i \in 1..Len(call.team_game_df) }
        IN  /\ \A t \in teams : Cardinality({ r \in call.ret : r.team = t }) = 1
            /\ \A r \in call.ret :
                  /\ r.team \in teams
                  /\ r.Poss = MeanPoss(r.team)
                  /\ r.OffRtg = RDiv(MeanTeamPts(r.team), RDiv(r.Poss, <<100, 1>>))
                  /\ r.DefRtg = RAdd(<<100, 1>>, RSub(LeagueAverage, r.OffRtg))
                  /\ RAdd(r.OffRtg, r.DefRtg) = RAdd(<<100, 1>>, LeagueAverage)
            /\ \A r, q \in call.ret :
                  (MeanTeamPts(r.team) = MeanTeamPts(q.team) /\ r.Poss = q.Poss)
                      => (r.OffRtg = q.OffRtg /\ r.DefRtg = q.DefRtg)
            /\ RMeanSet([r \in call.ret |-> r.DefRtg], call.ret) = <<100, 1>>

\* two teams with different numbers of games and different offensive ratings
C15_Witness ==
    /\ call.op = "estimate_team_ratings"
    /\ Cardinality(GamesOfTeam("LAL")) = 2
    /\ Cardinality(GamesOfTeam("BOS")) = 1
    /\ Cardinality(call.ret) = 2
    /\ \E r, q \in call.ret :
          /\ r.team = "LAL" /\ q.team = "BOS"
          /\ RLess(q.OffRtg, r.OffRtg)
          /\ RLess(r.DefRtg, <<100, 1>>) /\ RLess(<<100, 1>>, q.DefRtg)
          /\ RAdd(r.OffRtg, r.DefRtg) = RAdd(q.OffRtg, q.DefRtg)

-----------------------------------------------------------------------------
(* main_pipeline.py *)

\* the bound of the pipeline's exploration: runs of run_full_model
MaxRuns == 2
\* what load_recent_boxscores can hand to run_full_model: nothing, an empty
\* frame, or rows
SourceReturns == { None, << >>, RealBox }

\* the injury feed run_full_model passes
PipelineFeed ==
    << [player_id |-> 12, status |-> "OUT", probability |-> <<0, 1>>],
       [player_id |-> 11, status |-> "QUESTIONABLE", probability |-> <<7, 10>>] >>

\* groupby(["game_date", "team"]): a group is named by the index of its first
\* row; the groups are listed in the order of their first rows
SameGroup(box_df, i, j) ==
    box_df[i].game_date = box_df[j].game_date /\ box_df[i].team = box_df[j].team

TeamGameGroups(box_df) ==
    LET First(i) == \A j \in 1..(i - 1) : ~SameGroup(box_df, i, j)
    IN  SelectSeq([i \in 1..Len(box_df) |-> i], First)

RowsOfGroup(box_df, g) == { i \in 1..Len(box_df) : SameGroup(box_df, i, g) }

\* g["team_pts"].mean() of a group
GroupTeamPts(box_df, g) ==
    RMean([i \in 1..Len(box_df) |-> <<box_df[i].team_pts, 1>>], RowsOfGroup(box_df, g))

\* team_game_rows: one row per (game_date, team) with the assumed shot inputs
TeamGameRows(box_df) ==
    LET groups == TeamGameGroups(box_df)
    IN  [k \in 1..Len(groups) |->
            [team |-> box_df[groups[k]].team,
             game_date |-> box_df[groups[k]].game_date,
             team_pts |-> IntTrunc(GroupTeamPts(box_df, groups[k])),
             fga |-> 85, fta |-> 20, oreb |-> 10, tov |-> 12]]

\* team_ratings of a box score: step 4's team_game_rows and the estimate
TeamRatingsOfBox(box_df) == estimate_team_ratings(TeamGameRows(box_df))

TeamRatingsTable == [b \in BoxScores |-> TeamRatingsOfBox(b)]

TeamRatingsOf(box_df) ==
    IF box_df \in DOMAIN TeamRatingsTable THEN TeamRatingsTable[box_df]
    ELSE TeamRatingsOfBox(box_df)

\* a game total that adds up every team of the projections
ProjGameTotalAllTeams(proj_pts_df) ==
    LET n == Len(proj_pts_df)
    IN  Round2(RSum([i \in 1..n |-> proj_pts_df[i].proj_pts_adj], 1..n))

\* proj_game_total: the two highest team sums of proj_pts_adj (or the only
\* one), rounded to 2 decimals
ProjGameTotal(proj_pts_df) ==
    LET n == Len(proj_pts_df)
        teams == { proj_pts_df[i].team : i \in 1..n }
        total == [t \in teams |->
                    RSum([i \in 1..n |-> proj_pts_df[i].proj_pts_adj],
                         { i \in 1..n : proj_pts_df[i].team = t })]
        top(S) == CHOOSE t \in S : \A u \in S : RLeq(total[u], total[t])
        first == top(teams)
    IN  Round2(IF Cardinality(teams) >= 2
               THEN RAdd(total[first], total[top(teams \ {first})])
               ELSE RSumSet(total, teams))

\* team_std, as its square: the sample variance of the per-(date, team) means
\* of team_pts; NaN (None here) with fewer than two groups, 9.0 when it is 0
\*   team_std = float(team_pts_per_team_game["team_pts"].std() or 9.0)
TeamStdSquared(box_df) ==
    LET groups == TeamGameGroups(box_df)
        n == Len(groups)
        val == [k \in 1..n |-> GroupTeamPts(box_df, groups[k])]
        mean == RMean(val, 1..n)
        var == RDiv(RSum([k \in 1..n |->
                            RMul(RSub(val[k], mean), RSub(val[k], mean))], 1..n),
                    <<n - 1, 1>>)
    IN  IF n < 2 THEN None
        ELSE IF var = RZero THEN <<81, 1>>
        ELSE var

TeamStdSquaredTable == [b \in BoxScores |-> TeamStdSquared(b)]

TeamStdSquaredOf(box_df) ==
    IF box_df \in DOMAIN TeamStdSquaredTable THEN TeamStdSquaredTable[box_df]
    ELSE TeamStdSquared(box_df)

\* p_over = 1 - norm.cdf(z), z = (book_total - proj_game_total) / game_std,
\* game_std = sqrt(2) * team_std: kept as the terms of z, NaN as None
POver(book_total, proj_game_total, team_std_sq) ==
    IF team_std_sq = None THEN None
    ELSE [one_minus_cdf_of |->
            [z_times_game_std |-> RSub(book_total, proj_game_total),
             game_std_squared |-> RMul(<<2, 1>>, team_std_sq)]]

\* dec_from_american(a)
dec_from_american(a) ==
    IF a < 0 THEN RAdd(<<1, 1>>, Rat(100, Abs(a)))
    ELSE RAdd(<<1, 1>>, Rat(a, 100))

\* ev = p_over * (dec - 1) - (1 - p_over), kept as its terms
EvOf(p_over, dec) == [p |-> p_over, times |-> RSub(dec, <<1, 1>>), minus_one_minus_p |-> TRUE]

\* the rows of S (indices of df) by proj_pts_adj, highest first, at most k of
\* them: every order sort_values can give rows of equal value
RECURSIVE Descending(_, _, _)
Descending(df, S, k) ==
    IF S = {} \/ k = 0 THEN { << >> }
    ELSE LET tops == { i \in S : \A j \in S :
                         RLeq(df[j].proj_pts_adj, df[i].proj_pts_adj) }
         IN  UNION { { <<i>> \o t : t \in Descending(df, S \ {i}, k - 1) } :
                     i \in tops }

\* top_players: head(5) of the rows sorted by proj_pts_adj, renamed proj_pts
TopPlayers(proj_pts_df) ==
    { [k \in 1..Len(f) |->
          LET r == proj_pts_df[f[k]]
          IN  [player_id |-> r.player_id, name |-> r.name, team |-> r.team,
               pos |-> r.pos, proj_min |-> r.proj_min, proj_pts |-> r.proj_pts_adj]] :
      f \in Descending(proj_pts_df, 1..Len(proj_pts_df), 5) }

\* the frames of projected points the box scores lead to, and what step 6
\* computes from them
ProjPtsFrames ==
    { apply_position_matchup(
          redistribute_minutes(ProjectedMinutesTable[b], PipelineFeed),
          b, << >>, "GENERIC") : b \in BoxScores }

ProjGameTotalTable == [df \in ProjPtsFrames |-> ProjGameTotal(df)]

ProjGameTotalOf(df) ==
    IF df \in DOMAIN ProjGameTotalTable THEN ProjGameTotalTable[df]
    ELSE ProjGameTotal(df)

TopPlayersTable == [df \in ProjPtsFrames |-> TopPlayers(df)]

TopPlayersOf(df) ==
    IF df \in DOMAIN TopPlayersTable THEN TopPlayersTable[df]
    ELSE TopPlayers(df)

\* the stages of run_full_model in the order of its statements
CodeStages ==
    << "load_data", "minutes", "injuries", "ensure_db", "insert_open",
       "insert_current", "line_drift", "team_ratings", "matchup",
       "game_total" >>

\* an order that tracks the odds after the matchup adjustment
StageAfterOddsLast(pc) ==
    LET order == << "load_data", "minutes", "injuries", "team_ratings", "matchup",
                    "ensure_db", "insert_open", "insert_current",
                    "line_drift", "game_total" >>
        k == CHOOSE i \in 1..Len(order) : order[i] = pc
    IN  IF pc = "idle" THEN order[1]
        ELSE IF k = Len(order) THEN "idle" ELSE order[k + 1]

\* the statement that follows stage pc
StageAfter(pc) ==
    LET k == CHOOSE i \in 1..Len(CodeStages) : CodeStages[i] = pc
    IN  IF pc = "idle" THEN CodeStages[1]
        ELSE IF k = Len(CodeStages) THEN "idle" ELSE CodeStages[k + 1]

\* the locals of a run that has just been called; source is what the data
\* source returned and stages the stages executed, which the code does not hold
NewRun ==
    [pc |-> StageAfter("idle"), stages |-> << >>, source |-> None,
     box_df |-> None, used_real_data |-> FALSE, proj_df |-> None,
     modified_proj |-> None, drift |-> None,
     team_ratings |-> None, proj_pts_df |-> None]

\* the run after stage pc, with the locals in `changes` assigned
Advance(changes) ==
    [pc |-> StageAfter(run.pc), stages |-> Append(run.stages, run.pc)]
        @@ changes @@ run

\* a fallback that takes an empty frame for real data
load_data_empty_is_real(src, seed) ==
    IF src # None
    THEN [used_real_data |-> TRUE, box_df |-> src]
    ELSE [used_real_data |-> FALSE,
          box_df |-> SyntheticBoxOf(seed)]

\* step 0: real rows when the source returned any, synthetic rows otherwise
\*   if box_df is not None and not box_df.empty: used_real_data = True
\*   else: box_df = build_synthetic_box()
load_data(src, seed) ==
    IF src # None /\ src # << >>
    THEN [used_real_data |-> TRUE, box_df |-> src]
    ELSE [used_real_data |-> FALSE,
          box_df |-> SyntheticBoxOf(seed)]

\* run_full_model() is called
CallRunFullModel ==
    /\ run.pc = "idle"
    /\ BagCardinality(results) < MaxRuns
    /\ run' = NewRun
    /\ UNCHANGED <<storeVars, call, results>>

LoadData ==
    /\ run.pc = "load_data"
    /\ \E src \in SourceReturns, seed \in Seeds :
          run' = Advance([source |-> src] @@ load_data(src, seed))
    /\ UNCHANGED <<storeVars, call, results>>

MinutesProjection ==
    /\ run.pc = "minutes"
    /\ run' = Advance([proj_df |-> ProjectedMinutesOf(run.box_df)])
    /\ UNCHANGED <<storeVars, call, results>>

InjuryRedistribution ==
    /\ run.pc = "injuries"
    /\ run' = Advance([modified_proj |->
                          redistribute_minutes(run.proj_df, PipelineFeed)])
    /\ UNCHANGED <<storeVars, call, results>>

OddsEnsureDb ==
    /\ run.pc = "ensure_db"
    /\ store' = ensure_db_rows(tableExists, store)
    /\ tableExists' = TRUE
    /\ run' = Advance(<< >>)
    /\ UNCHANGED <<clock, call, results>>

\* insert_snapshot(game_id, "BookA", "total", line, -110) with the default ts:
\* utcnow() reads what it read last, or a later time
OddsInsert(stage, line) ==
    /\ run.pc = stage
    /\ \E now \in { clock, clock + 1 } :
          /\ store' = InsertRow(ensure_db_rows(tableExists, store),
                                "MODEL_DEMO_001", "BookA", "total", line, -110,
                                Stamp(NoTs, now))
          /\ clock' = now
    /\ tableExists' = TRUE
    /\ run' = Advance(<< >>)
    /\ UNCHANGED <<call, results>>

OddsInsertOpen == OddsInsert("insert_open", <<459, 2>>)

OddsInsertCurrent == OddsInsert("insert_current", <<228, 1>>)

\* snaps = load_snapshots(game_id, "total"); drift = compute_line_drift(snaps):
\* nothing but the drift is kept of snaps
OddsLineDrift ==
    /\ run.pc = "line_drift"
    /\ \E drift \in { compute_line_drift(snaps) :
                        snaps \in LoadResults(ensure_db_rows(tableExists, store),
                                              "MODEL_DEMO_001", "total") } :
          run' = Advance([drift |-> drift])
    /\ store' = ensure_db_rows(tableExists, store)
    /\ tableExists' = TRUE
    /\ UNCHANGED <<clock, call, results>>

TeamRatings ==
    /\ run.pc = "team_ratings"
    /\ run' = Advance([team_ratings |->
                          TeamRatingsOf(run.box_df)])
    /\ UNCHANGED <<storeVars, call, results>>

MatchupAdjustment ==
    /\ run.pc = "matchup"
    /\ run' = Advance([proj_pts_df |->
                          apply_position_matchup(run.modified_proj, run.box_df,
                                                 << >>, "GENERIC")])
    /\ UNCHANGED <<storeVars, call, results>>

\* the dict run_full_model returns
ModelResult(r, top_players) ==
    LET proj_game_total == ProjGameTotalOf(r.proj_pts_df)
        book_total == book_total_of(r.drift, proj_game_total)
        team_std_sq == TeamStdSquaredOf(r.box_df)
        p_over == POver(book_total, proj_game_total, team_std_sq)
    IN  [used_real_data |-> r.used_real_data,
         rows_loaded |-> Len(r.box_df),
         proj_game_total |-> proj_game_total,
         book_total |-> book_total,
         p_over |-> p_over,
         ev |-> EvOf(p_over, dec_from_american(-110)),
         team_ratings |-> r.team_ratings,
         top_players |-> top_players]

\* step 6 and the return; results keeps, beside the dict returned, what the data
\* source had returned, the box score the run used and the stages it executed
GameTotalAndReturn ==
    /\ run.pc = "game_total"
    /\ \E top_players \in TopPlayersOf(run.proj_pts_df) :
          results' = results (+) SetToBag({ [ret |-> ModelResult(run, top_players),
                                               source |-> run.source,
                                               box_df |-> run.box_df,
                                               stages |-> Append(run.stages, run.pc)] })
    /\ run' = [pc |-> StageAfter(run.pc)]
    /\ UNCHANGED <<storeVars, call>>

Init ==
    /\ tableExists = FALSE
    /\ store = << >>
    /\ clock = 1
    /\ call = [op |-> "none"]
    /\ run = IdleRun
    /\ results = EmptyBag

Next ==
    \/ CallRunFullModel
    \/ LoadData
    \/ MinutesProjection
    \/ InjuryRedistribution
    \/ OddsEnsureDb
    \/ OddsInsertOpen
    \/ OddsInsertCurrent
    \/ OddsLineDrift
    \/ TeamRatings
    \/ MatchupAdjustment
    \/ GameTotalAndReturn

\* runs of run_full_model, one after the other, on one odds store
Spec == Init /\ [][Next]_vars

-----------------------------------------------------------------------------
(* Claims about run_full_model *)

\* C6: two runs of run_full_model over the same synthetic box score return the
\* same proj_game_total, book_total, p_over and ev, whatever earlier runs left
\* in the odds store.
C6_Reproducible ==
    \A r1, r2 \in BagToSet(results) :
        (~r1.ret.used_real_data /\ r1.box_df = r2.box_df)
        => /\ r1.ret.proj_game_total = r2.ret.proj_game_total
           /\ r1.ret.book_total = r2.ret.book_total
           /\ r1.ret.p_over = r2.ret.p_over
           /\ r1.ret.ev = r2.ret.ev

\* the stages executed by the run in progress and by the runs that returned
StagesOfRuns ==
    (IF run.pc = "idle" THEN {} ELSE { run.stages })
        \cup { r.stages : r \in BagToSet(results) }

\* in st, stage b is executed only after stage a
Before(st, a, b) ==
    \A k \in 1..Len(st) : st[k] = b => \E j \in 1..(k - 1) : st[j] = a

\* no stage is executed twice in st
Once(st) == \A j, k \in 1..Len(st) : st[j] = st[k] => j = k

\* the stages that write or read the odds store
OddsStages == { "ensure_db", "insert_open", "insert_current", "line_drift" }

\* C7 as stated: minutes projection, injury adjustment, team ratings, positional
\* matchup adjustment, odds snapshots and drift, final aggregation; the odds
\* store is not written or read before the matchup adjustment has completed.
C7_OddsAfterMatchup ==
    \A st \in StagesOfRuns :
        /\ Once(st)
        /\ Before(st, "minutes", "injuries")
        /\ Before(st, "injuries", "team_ratings")
        /\ Before(st, "team_ratings", "matchup")
        /\ \A o \in OddsStages : Before(st, "matchup", o)
        /\ \A o \in OddsStages : Before(st, o, "game_total")

\* C7 as amended: every run executes minutes projection, injury adjustment, the
\* odds store's inserts and the line drift, team ratings, positional matchup
\* adjustment and final aggregation, in this order: the odds store is written
\* and read after the injury adjustment and before the team ratings.
C7_OddsBeforeTeamRatings ==
    \A st \in StagesOfRuns :
        /\ Once(st)
        /\ Before(st, "load_data", "minutes")
        /\ Before(st, "minutes", "injuries")
        /\ \A o \in OddsStages : Before(st, "injuries", o)
        /\ Before(st, "ensure_db", "insert_open")
        /\ Before(st, "insert_open", "insert_current")
        /\ Before(st, "insert_current", "line_drift")
        /\ \A o \in OddsStages : Before(st, o, "team_ratings")
        /\ Before(st, "team_ratings", "matchup")
        /\ Before(st, "matchup", "game_total")

\* C7 witness: a run has written and read the odds store and has not yet
\* estimated the team ratings or adjusted for the matchup
C7_Witness ==
    /\ run.pc = "team_ratings"
    /\ \A o \in OddsStages : \E k \in 1..Len(run.stages) : run.stages[k] = o
    /\ \A k \in 1..Len(run.stages) : run.stages[k] \notin { "team_ratings", "matchup" }
    /\ run.drift # None
    /\ Len(store) >= 2

\* what the data source returned is a non-empty set of rows
NonEmptyRows(source) == source # None /\ source # << >>

\* the keys of the dict run_full_model returns
ModelResultKeys ==
    { "used_real_data", "rows_loaded", "proj_game_total", "book_total",
      "p_over", "ev", "team_ratings", "top_players" }

\* C8: used_real_data is true exactly when the source returned a non-empty set
\* of rows; when it returned an empty set or nothing the run works on the 120
\* synthetic rows (20 dates x 6 players) and on no real row, every later stage
\* runs, and a complete result is returned.
C8_SyntheticFallback ==
    /\ (run.pc # "idle" /\ run.stages # << >>) =>
          /\ run.used_real_data = NonEmptyRows(run.source)
          /\ run.used_real_data => run.box_df = run.source
          /\ ~run.used_real_data =>
                /\ \E seed \in Seeds : run.box_df = SyntheticBoxTable[seed]
                /\ Len(run.box_df) = 20 * 6
                /\ \A i \in 1..Len(run.box_df), j \in 1..Len(RealBox) :
                      run.box_df[i] # RealBox[j]
    /\ \A r \in BagToSet(results) :
          /\ r.ret.used_real_data = NonEmptyRows(r.source)
          /\ r.ret.rows_loaded = Len(r.box_df)
          /\ ~NonEmptyRows(r.source) =>
                /\ r.ret.rows_loaded = 120
                /\ \E seed \in Seeds : r.box_df = SyntheticBoxTable[seed]
                /\ \A s \in { "minutes", "injuries", "ensure_db", "insert_open",
                              "insert_current", "line_drift", "team_ratings",
                              "matchup", "game_total" } :
                      \E i \in 1..Len(r.stages) : r.stages[i] = s
                /\ DOMAIN r.ret = ModelResultKeys
                /\ \A f \in { "proj_game_total", "book_total", "p_over" } :
                      r.ret[f] # None
                /\ r.ret.ev.p # None
                /\ r.ret.top_players # << >>
                /\ r.ret.team_ratings # {}

\* C8 witness: a run whose source returned nothing and a run whose source
\* returned an empty frame have both returned a result from 120 synthetic rows
C8_Witness ==
    \E r1, r2 \in BagToSet(results) :
        /\ r1.source = None
        /\ r2.source = << >>
        /\ ~r1.ret.used_real_data /\ ~r2.ret.used_real_data
        /\ r1.ret.rows_loaded = 120 /\ r2.ret.rows_loaded = 120
-----------------------------------------------------------------------------
(* bot.py: the odds helpers and build_prop_embed *)

\* the largest American odds tried, either way
MaxOdds == 150

\* Python values that reach the helpers: None, an int, a str
PyInt(n) == [int |-> n]
PyStr(s) == [str |-> s]

\* the strings int() converts, with their values; int() raises ValueError on
\* every other string here
IntOfStr == ("-110" :> -110) @@ ("+150" :> 150) @@ ("0" :> 0) @@ (" 120 " :> 120)
BookStrings == DOMAIN IntOfStr \cup { "", "abc", "1.5" }

\* int(odds) succeeds
IntConvertible(odds) ==
    IF "int" \in DOMAIN odds THEN TRUE
    ELSE IF "str" \in DOMAIN odds THEN odds.str \in DOMAIN IntOfStr
    ELSE FALSE

\* int(odds), where it succeeds
IntValue(odds) == IF "int" \in DOMAIN odds THEN odds.int ELSE IntOfStr[odds.str]

\* a converter that prices every odds as 1 + 100 / |odds|
american_to_decimal_as_favourite(odds) ==
    IF odds = None THEN None
    ELSE IF ~IntConvertible(odds) THEN None
    ELSE LET o == IntValue(odds)
         IN  IF o # 0 THEN RAdd(<<1, 1>>, Rat(100, Abs(o))) ELSE <<1, 1>>

\* a converter that prices what it cannot read as even odds of 1.0
american_to_decimal_invalid_as_one(odds) ==
    IF odds = None THEN None
    ELSE IF ~IntConvertible(odds) THEN <<1, 1>>
    ELSE LET o == IntValue(odds)
         IN  IF o < 0 THEN RAdd(<<1, 1>>, Rat(100, Abs(o)))
             ELSE RAdd(<<1, 1>>, Rat(o, 100))

\* american_to_decimal(odds)
american_to_decimal(odds) ==
    IF odds = None THEN None
    ELSE IF ~IntConvertible(odds) THEN None
    ELSE LET o == IntValue(odds)
         IN  IF o < 0 THEN RAdd(<<1, 1>>, Rat(100, Abs(o)))
             ELSE RAdd(<<1, 1>>, Rat(o, 100))

\* expected_value_percent(prob, book_decimal)
expected_value_percent(prob, book_decimal) ==
    IF book_decimal = None THEN None
    ELSE LET exp_return == RSub(RMul(prob, book_decimal), <<1, 1>>)
         IN  RMul(exp_return, <<100, 1>>)

\* the truth value Python gives None, a str or an int, and the one it gives
\* None or a float
Truthy(x) ==
    IF x = None THEN FALSE
    ELSE IF "str" \in DOMAIN x THEN x.str # ""
    ELSE x.int # 0
TruthyFloat(x) == IF x = None THEN FALSE ELSE x[1] # 0

\* the text of one side of the embed, by what it reports (the numbers as
\* they are before formatting)
SideText(prob, book, book_dec, ev) ==
    IF TruthyFloat(book_dec)
    THEN IF ev # None
         THEN [probability |-> prob,
               fair |-> IF RLess(RZero, prob) THEN RDiv(<<1, 1>>, prob) ELSE [inf |-> TRUE],
               book_amer |-> book, book_dec |-> book_dec, ev |-> ev]
         ELSE [message |-> "No EV (book odds invalid)."]
    ELSE [probability |-> prob, message |-> "No book odds provided."]

\* a recommendation that takes the EV of an unpriced side for 0 and compares
\* the two sides whenever one of them is priced
RecommendationMissingAsZero(ev_over, ev_under) ==
    IF ev_over = None /\ ev_under = None THEN "No recommendation"
    ELSE LET o == IF ev_over = None THEN RZero ELSE ev_over
             u == IF ev_under = None THEN RZero ELSE ev_under
         IN  IF RLess(u, o) /\ RLess(RZero, o) THEN "OVER looks good"
             ELSE IF RLess(o, u) /\ RLess(RZero, u) THEN "UNDER looks good"
             ELSE IF RLeq(u, o) THEN "Best side: OVER" ELSE "Best side: UNDER"

\* the recommendation of the embed, by its case
Recommendation(ev_over, ev_under) ==
    IF ev_over = None /\ ev_under = None THEN "No recommendation"
    ELSE IF ev_over # None /\ ev_under # None
    THEN IF RLess(ev_under, ev_over) /\ RLess(RZero, ev_over) THEN "OVER looks good"
         ELSE IF RLess(ev_over, ev_under) /\ RLess(RZero, ev_under) THEN "UNDER looks good"
         ELSE IF RLeq(ev_under, ev_over) THEN "Best side: OVER" ELSE "Best side: UNDER"
    ELSE IF ev_over # None /\ RLess(RZero, ev_over) THEN "OVER looks good"
    ELSE IF ev_under # None /\ RLess(RZero, ev_under) THEN "UNDER looks good"
    ELSE "No strong edge detected."

\* build_prop_embed(...): its locals and the fields of the embed that depend
\* on the odds
build_prop_embed(over_prob, under_prob, book_over, book_under) ==
    LET book_dec_over == IF Truthy(book_over) THEN american_to_decimal(book_over) ELSE None
        book_dec_under == IF Truthy(book_under) THEN american_to_decimal(book_under) ELSE None
        ev_over == IF TruthyFloat(book_dec_over)
                   THEN expected_value_percent(over_prob, book_dec_over) ELSE None
        ev_under == IF TruthyFloat(book_dec_under)
                    THEN expected_value_percent(under_prob, book_dec_under) ELSE None
    IN  [book_dec_over |-> book_dec_over, book_dec_under |-> book_dec_under,
         ev_over |-> ev_over, ev_under |-> ev_under,
         over_text |-> SideText(over_prob, book_over, book_dec_over, ev_over),
         under_text |-> SideText(under_prob, book_under, book_dec_under, ev_under),
         rec |-> Recommendation(ev_over, ev_under)]

\* what the helpers are applied to
OddsInputs ==
    { None } \cup { PyInt(n) : n \in (-MaxOdds)..MaxOdds } \cup { PyStr(s) : s \in BookStrings }
BookInputs == { None } \cup { PyStr(s) : s \in BookStrings }
OverProbs == { <<0, 1>>, <<1, 2>>, <<11, 20>>, <<1, 1>> }
BookDecimals == { None, <<1, 1>>, <<21, 11>>, <<5, 2>> }

\* american_to_decimal(odds) and, for an integer, the pipeline's
\* dec_from_american(odds) beside it
AmericanToDecimal ==
    /\ call.op = "odds_input"
    /\ call' = [op |-> "american_to_decimal", odds |-> call.odds,
                ret |-> american_to_decimal(call.odds),
                dec |-> IF call.odds # None /\ "int" \in DOMAIN call.odds
                        THEN dec_from_american(call.odds.int) ELSE None]
    /\ UNCHANGED <<storeVars, pipeVars>>

ExpectedValuePercent ==
    /\ call.op = "ev_input"
    /\ call' = [op |-> "expected_value_percent", prob |-> call.prob,
                book_decimal |-> call.book_decimal,
                ret |-> expected_value_percent(call.prob, call.book_decimal)]
    /\ UNCHANGED <<storeVars, pipeVars>>

BuildPropEmbed ==
    /\ call.op = "embed_input"
    /\ call' = [op |-> "build_prop_embed", over_prob |-> call.over_prob,
                under_prob |-> call.under_prob, book_over |-> call.book_over,
                book_under |-> call.book_under,
                ret |-> build_prop_embed(call.over_prob, call.under_prob,
                                         call.book_over, call.book_under)]
    /\ UNCHANGED <<storeVars, pipeVars>>

OddsInit ==
    /\ run = IdleRun
    /\ results = EmptyBag
    /\ tableExists = FALSE
    /\ store = << >>
    /\ clock = 1
    /\ \/ \E o \in OddsInputs : call = [op |-> "odds_input", odds |-> o]
       \/ \E p \in OverProbs, d \in BookDecimals :
             call = [op |-> "ev_input", prob |-> p, book_decimal |-> d]
       \/ \E p \in OverProbs, o \in BookInputs, u \in BookInputs :
             call = [op |-> "embed_input", over_prob |-> p,
                     under_prob |-> RSub(<<1, 1>>, p), book_over |-> o,
                     book_under |-> u]

OddsNext == AmericanToDecimal \/ ExpectedValuePercent \/ BuildPropEmbed

\* the odds helpers and the embed on every bounded input
OddsSpec == OddsInit /\ [][OddsNext]_vars

-----------------------------------------------------------------------------
(* The claims about the odds helpers *)

\* C18: american_to_decimal maps a negative integer o to 1 + 100/|o| and a
\* non-negative one to 1 + o/100, so that the result is at least 1 for every
\* integer (-110 gives 1 + 100/110, +150 gives 2.5), and dec_from_american
\* returns the same value for every integer
C18_AmericanToDecimal ==
    (call.op = "american_to_decimal" /\ call.odds # None /\ "int" \in DOMAIN call.odds) =>
        LET o == call.odds.int
        IN  /\ o < 0 => call.ret = RAdd(<<1, 1>>, RDiv(<<100, 1>>, <<-o, 1>>))
            /\ o >= 0 => call.ret = RAdd(<<1, 1>>, RDiv(<<o, 1>>, <<100, 1>>))
            /\ RLeq(<<1, 1>>, call.ret)
            /\ o = -110 => call.ret = RAdd(<<1, 1>>, <<100, 110>>)
            /\ o = 150 => call.ret = <<5, 2>>
            /\ call.dec = call.ret

\* -110 converted by both converters to 21/11
C18_Witness ==
    /\ call.op = "american_to_decimal"
    /\ call.odds = PyInt(-110)
    /\ call.ret = <<21, 11>>
    /\ call.dec = <<21, 11>>

\* book odds that were supplied and can be converted to an integer
SuppliedAndValid(book) ==
    /\ book # None
    /\ book.str # ""
    /\ IntConvertible(book)

\* what the embed has for one side: an EV among its locals and in its text
\* exactly when the odds were supplied and valid, no decimal odds and no EV
\* otherwise (never a zero), and the probability in the text either way
SideReported(book, prob, book_dec, ev, text) ==
    /\ ev # None <=> SuppliedAndValid(book)
    /\ "ev" \in DOMAIN text <=> SuppliedAndValid(book)
    /\ ~SuppliedAndValid(book) => (book_dec = None /\ ev = None)
    /\ SuppliedAndValid(book) =>
          /\ ev = RMul(RSub(RMul(prob, book_dec), <<1, 1>>), <<100, 1>>)
          /\ text.ev = ev
    /\ "probability" \in DOMAIN text
    /\ text.probability = prob

\* C19: missing or invalid odds neither fail the computation nor become a
\* zero: american_to_decimal returns None for an absent input and for one that
\* int() cannot convert, expected_value_percent returns None for decimal odds
\* of None, and build_prop_embed has an EV for a side if and only if that
\* side's odds were supplied and valid, and reports both probabilities
C19_MissingOddsGiveNoEV ==
    /\ call.op = "american_to_decimal" =>
          ((call.odds = None \/ ~IntConvertible(call.odds)) <=> call.ret = None)
    /\ call.op = "expected_value_percent" =>
          (call.book_decimal = None => call.ret = None)
    /\ call.op = "build_prop_embed" =>
          /\ SideReported(call.book_over, call.over_prob, call.ret.book_dec_over,
                          call.ret.ev_over, call.ret.over_text)
          /\ SideReported(call.book_under, call.under_prob, call.ret.book_dec_under,
                          call.ret.ev_under, call.ret.under_text)

\* over odds of "abc" and under odds of "-110": no EV for the over, an EV for
\* the under, both probabilities reported
C19_Witness ==
    /\ call.op = "build_prop_embed"
    /\ call.book_over = PyStr("abc")
    /\ call.book_under = PyStr("-110")
    /\ call.over_prob = <<11, 20>>
    /\ call.ret.ev_over = None
    /\ call.ret.ev_under = RMul(RSub(RMul(<<9, 20>>, <<21, 11>>), <<1, 1>>), <<100, 1>>)
    /\ call.ret.over_text.probability = <<11, 20>>
    /\ call.ret.under_text.probability = <<9, 20>>
    /\ call.ret.rec = "No strong edge detected."
-----------------------------------------------------------------------------
(* bot.py: the Poisson helpers, in binary floating point *)

\* The helpers add up rounded terms, so what they return depends on the
\* rounding. A float here is <<m, e>>, the number m * 2^e, with a mantissa of
\* MantissaBits bits (2^(MantissaBits-1) <= |m| < 2^MantissaBits, or <<0, 0>>)
\* and every operation rounded to the nearest float, ties to the even
\* mantissa, as IEEE 754 does. The code's floats have 53 bits.
MantissaBits == 12

\* the number of bits of n > 0
BitLen(n) == CHOOSE b \in 1..30 : 2^(b - 1) <= n /\ n < 2^b

\* the float nearest to n * 2^e
FRound(n, e) ==
    IF n = 0 THEN <<0, 0>>
    ELSE LET a == Abs(n)
             s == IF n < 0 THEN -1 ELSE 1
             b == BitLen(a)
         IN  IF b <= MantissaBits
             THEN <<s * a * 2^(MantissaBits - b), e - (MantissaBits - b)>>
             ELSE LET sh == b - MantissaBits
                      q == a \div 2^sh
                      r == a % 2^sh
                      half == 2^(sh - 1)
                      m == IF r > half \/ (r = half /\ q % 2 = 1) THEN q + 1 ELSE q
                  IN  IF m = 2^MantissaBits
                      THEN <<s * 2^(MantissaBits - 1), e + sh + 1>>
                      ELSE <<s * m, e + sh>>

FZero == <<0, 0>>
FOne == FRound(1, 0)
FromInt(n) == FRound(n, 0)
FNeg(a) == <<-a[1], a[2]>>

\* a + b: exact over the smaller exponent, then rounded; an operand below a
\* quarter of the other's last bit does not change it
FAdd(a, b) ==
    IF a[1] = 0 THEN b
    ELSE IF b[1] = 0 THEN a
    ELSE LET hi == IF a[2] >= b[2] THEN a ELSE b
             lo == IF a[2] >= b[2] THEN b ELSE a
             d == hi[2] - lo[2]
         IN  IF d > MantissaBits + 1 THEN hi
             ELSE FRound(hi[1] * 2^d + lo[1], lo[2])

FSub(a, b) == FAdd(a, FNeg(b))

\* a * b
FMul(a, b) == FRound(a[1] * b[1], a[2] + b[2])

\* a / b (b # 0): the quotient to MantissaBits + 2 bits and a bit that says
\* whether anything remains, then rounded
FDiv(a, b) ==
    IF a[1] = 0 THEN FZero
    ELSE LET s == IF (a[1] < 0) = (b[1] < 0) THEN 1 ELSE -1
             num == Abs(a[1]) * 2^(MantissaBits + 2)
             q == num \div Abs(b[1])
             sticky == IF num % Abs(b[1]) = 0 THEN 0 ELSE 1
         IN  FRound(s * (2 * q + sticky), a[2] - b[2] - MantissaBits - 3)

\* a <= b
FLeq(a, b) == FSub(a, b)[1] <= 0

\* lam ** k
RECURSIVE FPow(_, _)
FPow(lam, k) == IF k = 0 THEN FOne ELSE FMul(FPow(lam, k - 1), lam)

\* math.factorial(k)
RECURSIVE Factorial(_)
Factorial(k) == IF k <= 1 THEN 1 ELSE k * Factorial(k - 1)

\* the rates tried: 0.5, 1.0 and 2.0, every power of which is a float
Half == FRound(1, -1)
Two == FRound(2, 0)
Rates == { Half, FOne, Two }

\* math.exp(-lam): e^-0.5, e^-1 and e^-2 to 30 bits, rounded to a float
ExpNeg(lam) ==
    IF lam = Half THEN FRound(651257337, -30)
    ELSE IF lam = FOne THEN FRound(790015084, -31)
    ELSE FRound(581260615, -32)

\* poisson_p(k, lam)
poisson_p(k, lam) == FDiv(FMul(ExpNeg(lam), FPow(lam, k)), FromInt(Factorial(k)))

\* a sum that always has the term of 0
RECURSIVE poisson_cdf_with_first_term(_, _)
poisson_cdf_with_first_term(k, lam) ==
    IF k <= 0 THEN poisson_p(0, lam)
    ELSE FAdd(poisson_cdf_with_first_term(k - 1, lam), poisson_p(k, lam))

\* poisson_cdf(k, lam): the terms 0..k added in this order
RECURSIVE poisson_cdf(_, _)
poisson_cdf(k, lam) ==
    IF k < 0 THEN FZero ELSE FAdd(poisson_cdf(k - 1, lam), poisson_p(k, lam))

\* math.ceil of a rational
Ceil(x) == -Floor(RNeg(x))

\* probability_over(prop_line, expected_avg)
probability_over(prop_line, expected_avg) ==
    LET threshold == Ceil(prop_line)
        cdf == poisson_cdf(threshold - 1, expected_avg)
    IN  FSub(FOne, cdf)

\* the largest prop line tried
MaxLine == 9

\* prop lines: the halves from -1.0 to MaxLine + 0.5
PropLines == { Rat(h, 2) : h \in (-2)..(2 * MaxLine + 1) }

\* float("inf")
Inf == [inf |-> TRUE]

\* build_prop_embed's fair odds of a side: 1.0 / prob if prob > 0, else
\* infinite
FairOdds(prob) == IF prob[1] > 0 THEN FDiv(FOne, prob) ELSE Inf

\* the prop commands: over_prob = probability_over(prop_line, expected_avg),
\* under_prob = 1.0 - over_prob, and the fair odds build_prop_embed makes of
\* the two
PropProbabilities ==
    /\ call.op = "prop_input"
    /\ LET over_prob == probability_over(call.prop_line, call.expected_avg)
           under_prob == FSub(FOne, over_prob)
       IN  call' = [op |-> "prop", prop_line |-> call.prop_line,
                    expected_avg |-> call.expected_avg, over_prob |-> over_prob,
                    under_prob |-> under_prob,
                    fair_over |-> FairOdds(over_prob),
                    fair_under |-> FairOdds(under_prob)]
    /\ UNCHANGED <<storeVars, pipeVars>>

PropInit ==
    /\ run = IdleRun
    /\ results = EmptyBag
    /\ tableExists = FALSE
    /\ store = << >>
    /\ clock = 1
    /\ \E l \in PropLines, lam \in Rates :
          call = [op |-> "prop_input", prop_line |-> l, expected_avg |-> lam]

PropNext == PropProbabilities

\* the probabilities of the prop commands on every bounded line and rate
PropSpec == PropInit /\ [][PropNext]_vars

-----------------------------------------------------------------------------
(* The claim about the prop probabilities *)

\* C20: for every rate lambda > 0 and every prop line, the over and the under
\* probability add up to exactly 1 and each lies in the interval from 0 to 1
C20_ProbabilitiesInUnitInterval ==
    call.op = "prop" =>
        /\ FAdd(call.over_prob, call.under_prob) = FOne
        /\ FLeq(FZero, call.over_prob) /\ FLeq(call.over_prob, FOne)
        /\ FLeq(FZero, call.under_prob) /\ FLeq(call.under_prob, FOne)

\* C21: for a line whose ceiling is 0 or less, at every rate, probability_over
\* is exactly 1 (the sum up to threshold - 1 < 0 is empty), the under
\* probability is 0 and its fair odds are infinite, not a division by zero
C21_NonPositiveLineIsCertain ==
    (call.op = "prop" /\ Ceil(call.prop_line) <= 0) =>
        /\ call.over_prob = FOne
        /\ call.under_prob = FZero
        /\ call.fair_under = Inf
        /\ call.fair_over = FOne

\* the line -0.5 at the rate 2.0
C21_Witness ==
    /\ call.op = "prop"
    /\ call.prop_line = <<-1, 2>>
    /\ call.expected_avg = Two
    /\ call.over_prob = FOne
    /\ call.under_prob = FZero
    /\ call.fair_under = Inf
-----------------------------------------------------------------------------
(* The claims about the figures run_full_model returns *)

\* values 1 - norm.cdf(z) can have, by the sign of z: 0.5 at z = 0, below 0.5
\* for z > 0, above for z < 0
ProbesOf(p_over) ==
    LET d == p_over.one_minus_cdf_of.z_times_game_std
    IN  IF d = RZero THEN { <<1, 2>> }
        ELSE IF RLess(RZero, d) THEN { <<1, 100>>, <<1, 4>>, <<49, 100>> }
        ELSE { <<51, 100>>, <<3, 4>>, <<99, 100>> }

\* the number the terms of ev make at the probability p
EvAt(ev, p) == RSub(RMul(p, ev.times), RSub(<<1, 1>>, p))

\* C22: the ev of the dict run_full_model returns is the EV% of
\* expected_value_percent, (P * D - 1) * 100, for P = p_over and D the decimal
\* odds of -110
C22_EvIsPercent ==
    \A r \in BagToSet(results) :
        r.ret.p_over # None =>
            /\ r.ret.ev.times = RSub(american_to_decimal(PyInt(-110)), <<1, 1>>)
            /\ \A p \in ProbesOf(r.ret.p_over) :
                  EvAt(r.ret.ev, p) =
                      expected_value_percent(p, american_to_decimal(PyInt(-110)))
-----------------------------------------------------------------------------
(* The claims about the recommendation of the embed *)

\* the side a recommendation names, and whether it is a positive one
NamedSide(rec) ==
    IF rec \in { "OVER looks good", "Best side: OVER" } THEN "OVER"
    ELSE IF rec \in { "UNDER looks good", "Best side: UNDER" } THEN "UNDER"
    ELSE "none"
LooksGood(rec) == rec \in { "OVER looks good", "UNDER looks good" }
NotPositiveCaveat(rec) == rec \in { "Best side: OVER", "Best side: UNDER" }

\* C23: when both sides have an EV the recommendation names a side whose EV
\* is the larger of the two; it is a "looks good" recommendation if and only
\* if that EV is above 0 and a "best side, not positive" one if and only if it
\* is at most 0, equal EVs included
C23_BothSidesPolicy ==
    (call.op = "build_prop_embed" /\ call.ret.ev_over # None /\ call.ret.ev_under # None) =>
        LET best == RMax(call.ret.ev_over, call.ret.ev_under)
            rec == call.ret.rec
        IN  /\ NamedSide(rec) = "OVER" => call.ret.ev_over = best
            /\ NamedSide(rec) = "UNDER" => call.ret.ev_under = best
            /\ NamedSide(rec) # "none"
            /\ LooksGood(rec) <=> RLess(RZero, best)
            /\ NotPositiveCaveat(rec) <=> RLeq(best, RZero)

\* C24: when one side only has an EV the recommendation is that side "looks
\* good" if its EV is above 0 and "no strong edge" otherwise, and the other
\* side is never named; when neither side has one it is "no recommendation"
C24_OneSidePolicy ==
    call.op = "build_prop_embed" =>
        LET rec == call.ret.rec
        IN  /\ (call.ret.ev_over # None /\ call.ret.ev_under = None) =>
                  /\ rec \in { "OVER looks good", "No strong edge detected." }
                  /\ rec = "OVER looks good" <=> RLess(RZero, call.ret.ev_over)
            /\ (call.ret.ev_over = None /\ call.ret.ev_under # None) =>
                  /\ rec \in { "UNDER looks good", "No strong edge detected." }
                  /\ rec = "UNDER looks good" <=> RLess(RZero, call.ret.ev_under)
            /\ (call.ret.ev_over = None /\ call.ret.ev_under = None) =>
                  rec = "No recommendation"

\* the over without odds and the under at +150 with a probability of 0.45:
\* an EV of 12.5 for the under alone, which is recommended
C24_Witness ==
    /\ call.op = "build_prop_embed"
    /\ call.book_over = None
    /\ call.book_under = PyStr("+150")
    /\ call.over_prob = <<11, 20>>
    /\ call.ret.ev_over = None
    /\ call.ret.ev_under = <<25, 2>>
    /\ call.ret.rec = "UNDER looks good"
-----------------------------------------------------------------------------
(* main_pipeline.py: the Normal model of the game total on bounded box scores *)

\* the longest box score passed
MaxStdRows == 3

\* box-score rows by the columns the variance reads: two dates, two teams,
\* two team scores
StdRowChoices ==
    { [game_date |-> d, team |-> t, team_pts |-> p] :
        d \in 1..2, t \in { "LAL", "BOS" }, p \in { 100, 110 } }

StdBoxes == UNION { [1..n -> StdRowChoices] : n \in 1..MaxStdRows }

\* book totals and projected totals: the stored line and one equal to the
\* projection
StdBookTotals == { <<228, 1>>, <<4321, 20>> }
StdProjTotals == { <<4321, 20>>, <<1041, 25>> }

\* team_std, game_std, z and p_over of step 6
NormalTotalModel ==
    /\ call.op = "total_input"
    /\ LET team_std_sq == TeamStdSquared(call.box_df)
       IN  call' = [op |-> "normal_total", box_df |-> call.box_df,
                    book_total |-> call.book_total,
                    proj_game_total |-> call.proj_game_total,
                    team_std_sq |-> team_std_sq,
                    p_over |-> POver(call.book_total, call.proj_game_total, team_std_sq)]
    /\ UNCHANGED <<storeVars, pipeVars>>

TotalInit ==
    /\ run = IdleRun
    /\ results = EmptyBag
    /\ tableExists = FALSE
    /\ store = << >>
    /\ clock = 1
    /\ \E b \in StdBoxes, k \in StdBookTotals, p \in StdProjTotals :
          call = [op |-> "total_input", box_df |-> b, book_total |-> k,
                  proj_game_total |-> p]

TotalNext == NormalTotalModel

\* the Normal model of the total on every bounded box score
TotalSpec == TotalInit /\ [][TotalNext]_vars

\* the number of team-game rows of a box score and the sample variance of
\* their team_pts (for two rows or more)
TeamGameCount(box_df) == Len(TeamGameGroups(box_df))
EmpiricalVariance(box_df) ==
    LET groups == TeamGameGroups(box_df)
        n == Len(groups)
        val == [k \in 1..n |-> GroupTeamPts(box_df, groups[k])]
        mean == RMean(val, 1..n)
    IN  RDiv(RSum([k \in 1..n |-> RMul(RSub(val[k], mean), RSub(val[k], mean))], 1..n),
             <<n - 1, 1>>)

\* C25: the team standard deviation of the Normal model is the empirical one
\* when that is defined and positive and 9.0 when it is undefined (fewer than
\* two team-game rows) or zero; sigma_game is then positive and p_over is a
\* number, for every box score
C25_StdFallback ==
    call.op = "normal_total" =>
        /\ call.team_std_sq # None
        /\ call.p_over # None
        /\ RLess(RZero, call.p_over.one_minus_cdf_of.game_std_squared)
        /\ IF TeamGameCount(call.box_df) < 2 THEN call.team_std_sq = <<81, 1>>
           ELSE IF EmpiricalVariance(call.box_df) = RZero THEN call.team_std_sq = <<81, 1>>
           ELSE call.team_std_sq = EmpiricalVariance(call.box_df)
-----------------------------------------------------------------------------
(* main_pipeline.py: the store steps of two runs in parallel on one store *)

\* the two processes that run run_full_model
Procs == { "A", "B" }

\* the store steps of a run in program order, and the step that reads the drift
StoreSteps ==
    << "ensure_db", "insert_open", "insert_current", "load_snapshots",
       "line_drift", "book_total", "done" >>

StepAfter(pc) ==
    StoreSteps[1 + CHOOSE i \in 1..(Len(StoreSteps) - 1) : StoreSteps[i] = pc]

\* a run before its first store step
StoreRun == [pc |-> "ensure_db", snaps |-> None, drift |-> None, book_total |-> None]

\* process p takes its step with the locals in `changes` assigned
Stepped(p, changes) ==
    [run EXCEPT !.procs[p] = [pc |-> StepAfter(run.procs[p].pc)] @@ changes @@ run.procs[p]]

\* ensure_db() of step 3
ParallelEnsureDb(p) ==
    /\ run.procs[p].pc = "ensure_db"
    /\ store' = ensure_db_rows(tableExists, store)
    /\ tableExists' = TRUE
    /\ run' = Stepped(p, << >>)
    /\ UNCHANGED <<clock, call, results>>

\* insert_snapshot(game_id, "BookA", "total", line, -110): one committed INSERT
ParallelInsert(p, stage, line) ==
    /\ run.procs[p].pc = stage
    /\ \E now \in { clock, clock + 1 } :
          /\ store' = InsertRow(ensure_db_rows(tableExists, store),
                                "MODEL_DEMO_001", "BookA", "total", line, -110,
                                Stamp(NoTs, now))
          /\ clock' = now
    /\ tableExists' = TRUE
    /\ run' = Stepped(p, << >>)
    /\ UNCHANGED <<call, results>>

ParallelInsertOpen(p) == ParallelInsert(p, "insert_open", <<459, 2>>)

ParallelInsertCurrent(p) == ParallelInsert(p, "insert_current", <<228, 1>>)

\* snaps = load_snapshots(game_id, "total"): one SELECT of what is committed
ParallelLoadSnapshots(p) ==
    /\ run.procs[p].pc = "load_snapshots"
    /\ \E snaps \in LoadResults(ensure_db_rows(tableExists, store),
                                "MODEL_DEMO_001", "total") :
          run' = Stepped(p, [snaps |-> snaps])
    /\ store' = ensure_db_rows(tableExists, store)
    /\ tableExists' = TRUE
    /\ UNCHANGED <<clock, call, results>>

\* drift = compute_line_drift(snaps)
ParallelLineDrift(p) ==
    /\ run.procs[p].pc = "line_drift"
    /\ run' = Stepped(p, [drift |-> compute_line_drift(run.procs[p].snaps)])
    /\ UNCHANGED <<storeVars, call, results>>

\* book_total of step 6, against a projected total
ParallelBookTotal(p) ==
    /\ run.procs[p].pc = "book_total"
    /\ \E proj_game_total \in ProjTotals :
          run' = Stepped(p, [book_total |->
                                book_total_of(run.procs[p].drift, proj_game_total)])
    /\ UNCHANGED <<storeVars, call, results>>

ParallelInit ==
    /\ tableExists = FALSE
    /\ store = << >>
    /\ clock = 1
    /\ call = [op |-> "none"]
    /\ run = [procs |-> [p \in Procs |-> StoreRun]]
    /\ results = EmptyBag

ParallelNext ==
    \E p \in Procs :
        \/ ParallelEnsureDb(p)
        \/ ParallelInsertOpen(p)
        \/ ParallelInsertCurrent(p)
        \/ ParallelLoadSnapshots(p)
        \/ ParallelLineDrift(p)
        \/ ParallelBookTotal(p)

\* two runs on a fresh store, their store steps interleaved in every way
ParallelSpec == ParallelInit /\ [][ParallelNext]_vars

\* C26: whatever the interleaving of the store steps of two parallel runs,
\* the drift of each run has open = 229.5 and current = 228.0, and its
\* book_total is 228.0
C26_ParallelRunsSeeOwnLines ==
    \A p \in Procs :
        /\ run.procs[p].drift # None =>
              /\ run.procs[p].drift.open = <<459, 2>>
              /\ run.procs[p].drift.current = <<228, 1>>
        /\ run.procs[p].pc = "done" => run.procs[p].book_total = <<228, 1>>
-----------------------------------------------------------------------------
(* The claims about the game total and the top players *)

\* proj_pts_df of a run over the box score box_df: steps 1, 2 and 5
ProjPtsOfBox(box_df) ==
    apply_position_matchup(redistribute_minutes(ProjectedMinutesOf(box_df), PipelineFeed),
                           box_df, << >>, "GENERIC")

ProjPtsOfBoxTable == [b \in BoxScores |-> ProjPtsOfBox(b)]

ProjPtsOfRun(box_df) ==
    IF box_df \in DOMAIN ProjPtsOfBoxTable THEN ProjPtsOfBoxTable[box_df]
    ELSE ProjPtsOfBox(box_df)

\* the teams of the projections and the sum of proj_pts_adj of one of them
TeamsOf(df) == { df[i].team : i \in 1..Len(df) }
TeamSum(df, t) ==
    RSum([i \in 1..Len(df) |-> df[i].proj_pts_adj], { i \in 1..Len(df) : df[i].team = t })

\* the players the feed of the pipeline has as OUT
OutIds ==
    { PipelineFeed[k].player_id :
        k \in { j \in 1..Len(PipelineFeed) : PipelineFeed[j].status = "OUT" } }

\* what C27 says of one result
GameTotalAndTopPlayers(r) ==
    LET df == ProjPtsOfRun(r.box_df)
        teams == TeamsOf(df)
        sum == [t \in teams |-> TeamSum(df, t)]
        total == r.ret.proj_game_total
        top == r.ret.top_players
    IN  /\ IF Cardinality(teams) >= 2
           THEN \E t1 \in teams : \E t2 \in teams \ {t1} :
                   /\ \A u \in teams \ {t1, t2} :
                         RLeq(sum[u], sum[t1]) /\ RLeq(sum[u], sum[t2])
                   /\ total = Round2(RAdd(sum[t1], sum[t2]))
           ELSE \A t \in teams : total = Round2(sum[t])
        /\ \A i \in 1..Len(df) :
              df[i].player_id \in OutIds =>
                  (df[i].proj_min = RZero /\ df[i].proj_pts_adj = RZero)
        /\ Len(top) <= 5
        /\ Len(top) = IF Len(df) < 5 THEN Len(df) ELSE 5
        /\ \A k \in 1..(Len(top) - 1) : RLeq(top[k + 1].proj_pts, top[k].proj_pts)
        /\ \A k \in 1..Len(top) :
              \E i \in 1..Len(df) :
                  /\ df[i].player_id = top[k].player_id
                  /\ df[i].proj_pts_adj = top[k].proj_pts
        /\ \A i \in 1..Len(df) :
              \/ \E k \in 1..Len(top) : top[k].player_id = df[i].player_id
              \/ \A k \in 1..Len(top) : RLeq(df[i].proj_pts_adj, top[k].proj_pts)

\* C27: proj_game_total is the sum of the two largest team sums of
\* proj_pts_adj when the projections cover two teams or more and the one
\* team's sum otherwise, rounded to 2 decimals; a player an OUT entry set to 0
\* minutes contributes 0; top_players has at most 5 players, highest
\* proj_pts_adj first (of every result, at the step that returns it)
C27_GameTotalAndTopPlayers ==
    [][\A r \in BagToSet(results') :
          r \notin BagToSet(results) => GameTotalAndTopPlayers(r)]_vars

\* a run over the real box score (three teams, the OUT player 12 among the
\* rows) and a run over a synthetic one (six players, five of them listed)
C27_Witness ==
    \E r1, r2 \in BagToSet(results) :
        /\ r1.box_df = RealBox
        /\ Cardinality(TeamsOf(ProjPtsOfRun(r1.box_df))) = 3
        /\ \A t \in TeamsOf(ProjPtsOfRun(r1.box_df)) :
              RLess(RZero, TeamSum(ProjPtsOfRun(r1.box_df), t))
        /\ \E i \in 1..Len(ProjPtsOfRun(r1.box_df)) :
              ProjPtsOfRun(r1.box_df)[i].player_id = 12
        /\ ~r2.ret.used_real_data
        /\ Len(ProjPtsOfRun(r2.box_df)) = 6
        /\ Len(r2.ret.top_players) = 5

=============================================================================
